---- MODULE Spec2Model ----
(***************************************************************************)
(* Model of the client-side core of Milana: the GPT integration (gpt.js,   *)
(* kept in src/unnamed/part_001), the knowledge hub (knowledge.js, kept    *)
(* after the engine tests in src/frontend/tests/free-tier.test.js), the    *)
(* memory vault (src/frontend/scripts/memory.js) and the free-tier engine  *)
(* (src/frontend/scripts/free-tier.js).                                    *)
(*                                                                         *)
(* Text is modelled as a sequence of characters (one-character strings),   *)
(* so that trimming, whitespace collapsing and slicing are computed.       *)
(***************************************************************************)
EXTENDS Integers, Sequences, FiniteSets, TLC

\* ---------------------------------------------------------------- bounds
\* longest text typed into the key field or passed as a query
MaxLen == 2
\* longest user text passed to remember
MaxNote == 1
\* largest maxEntries a memory vault is configured with
MaxCap == 1
\* most remember calls that store a turn between two clears
MaxTurns == 2
\* largest limit passed to recall
MaxLimit == 2
\* largest cacheTtl an engine is configured with, in clock ticks
MaxTtl == 1
\* last reading of Date.now(), in clock ticks
MaxTime == 2

\* ------------------------------------------------------------------ text
Chars == {"a", " "}

Min(a, b) == IF a < b THEN a ELSE b
Max(a, b) == IF a > b THEN a ELSE b

\* every text of at most n characters
TextsUpTo(n) == UNION {[1..k -> Chars] : k \in 0..n}

IsSpace(c) == c = " "

\* Array.prototype.slice / String.prototype.slice with one argument
JsSliceFrom(s, start) ==
    LET len == Len(s)
        k == IF start < 0 THEN Max(len + start, 0) ELSE Min(start, len)
    IN  SubSeq(s, k + 1, len)

\* String.prototype.slice(0, n) for n >= 0
JsTake(s, n) == SubSeq(s, 1, Min(n, Len(s)))

RECURSIVE TrimStart(_)
TrimStart(s) ==
    IF s # <<>> /\ IsSpace(Head(s)) THEN TrimStart(Tail(s)) ELSE s

RECURSIVE TrimEnd(_)
TrimEnd(s) ==
    IF s # <<>> /\ IsSpace(s[Len(s)]) THEN TrimEnd(SubSeq(s, 1, Len(s) - 1)) ELSE s

\* String.prototype.trim
Trim(s) == TrimEnd(TrimStart(s))

\* replace(/[\s\n]+/g, ' '): every run of whitespace becomes one space
RECURSIVE CollapseSpaces(_)
CollapseSpaces(s) ==
    IF s = <<>> THEN <<>>
    ELSE IF IsSpace(Head(s))
         THEN <<" ">> \o CollapseSpaces(TrimStart(s))
         ELSE <<Head(s)>> \o CollapseSpaces(Tail(s))

\* Array.prototype.join
RECURSIVE JoinWith(_, _)
JoinWith(parts, sep) ==
    IF parts = <<>> THEN <<>>
    ELSE IF Len(parts) = 1 THEN parts[1]
    ELSE parts[1] \o sep \o JoinWith(Tail(parts), sep)

\* ------------------------------------------------------------- variables
VARIABLES
    maxEntries,   \* memory vault: configured cap
    memStore,     \* memory vault: storage item 'gptLongTermMemory'
    memFaulty,    \* the storage given to the vault and the hub: its calls may throw
    cleared,      \* memory vault: a clear() has removed the item since construction
    turns,        \* memory vault: turns stored by remember since the last clear
    vaultCall,    \* memory vault: the last operation called and what it returned
    hubEnabled,   \* knowledge hub: state.enabled, connector id -> "unset" | "on" | "off"
    hubStore,     \* knowledge hub: storage item 'gptKnowledgeHub'
    g,            \* knowledge hub: the gather call in flight, or the last one made
    listeners,    \* knowledge hub: the subscribed listeners, in insertion order
    hubCall,      \* knowledge hub: the last setConnectorEnabled call and what it did
    hasFreeTier,  \* GPT integration: a free-tier engine with a respond method is attached
    gptApiKey,    \* GPT integration: the in-memory key, <<>> when there is none
    keyField,     \* GPT integration: keyField.value
    keyStore,     \* GPT integration: storage item 'gptApiKey'
    status,       \* GPT integration: statusField text and its error colour
    q,            \* GPT integration: the query call in flight, or the last one made
    busy,         \* GPT integration: busy; the save and test buttons are disabled with it
    test,         \* GPT integration: per caller, the testKey call in flight or the last one made
    shown,    \* GPT integration: the last two formatError calls, error and text
    keyCall,      \* GPT integration: the persistKey call just made, what it found and returned
    cacheTtl,     \* free-tier engine: configured time to live of the cache slot
    now,          \* free-tier engine: what Date.now() reads
    aggregation,  \* free-tier engine: the cache slot
    resp,         \* free-tier engine: per caller, the respond call in flight or the last one made
    overlap,      \* engine and GPT integration: respond, or testKey, is called while
                  \* another call of it is in flight
    lastWrite,    \* free-tier engine: which call assigned the slot last, and what it was given
    twin          \* free-tier engine: two runs of one engine given the same calls, each with
                  \* its own Date.now(), its slot and the text of its last reply

vaultVars == <<maxEntries, memStore, memFaulty, cleared, turns, vaultCall>>
hubVars == <<hubEnabled, hubStore, g, listeners, hubCall>>
gptVars == <<hasFreeTier, gptApiKey, keyField, keyStore, status, q, busy, test, keyCall>>
engineVars == <<cacheTtl, now, aggregation, resp, overlap, lastWrite>>
vars == <<maxEntries, memStore, memFaulty, cleared, turns, vaultCall, hubEnabled, hubStore, g,
          listeners, hubCall,
          hasFreeTier, gptApiKey, keyField, keyStore, status, q, busy, test, keyCall,
          shown,
          cacheTtl, now, aggregation, resp, overlap, lastWrite, twin>>

\* what the operations of one component leave alone
notVault == <<hubVars, gptVars, engineVars, shown, twin>>
notHub == <<vaultVars, gptVars, engineVars, shown, twin>>
notGpt == <<vaultVars, hubVars, engineVars, shown, twin>>
notEngine == <<vaultVars, hubVars, gptVars, shown, twin>>

\* ========================================================== MEMORY VAULT
Stamps == {"t1", "t2"}
AssistantTexts == {<<>>, <<" ">>, <<"b">>}

\* a storage item: absent, the JSON text of an array, a text that does not
\* parse, or the JSON text of a value that is not an array (items then holds
\* the value's members, which are not entries)
NoItem == [kind |-> "none", items |-> <<>>]
GarbageItem == [kind |-> "garbage", items |-> <<"{">>]
ObjectItem == [kind |-> "object", items |-> <<"o">>]

JSONStringify(entries) == [kind |-> "array", items |-> entries]

\* sanitise without its trim
sanitise_NoTrim(value) == IF value = <<>> THEN <<>> ELSE CollapseSpaces(value)

sanitise(value) == IF value = <<>> THEN <<>> ELSE Trim(CollapseSpaces(value))

truncate(text, maxLength) ==
    IF Len(text) <= maxLength THEN text
    ELSE SubSeq(text, 1, maxLength - 1) \o <<"...">>

\* read without the Array.isArray test
read_NoArrayCheck == IF memStore.kind \in {"array", "object"} THEN memStore.items ELSE <<>>

\* read(): a missing, unparsable or non-array item reads as the empty sequence
read == IF memStore.kind = "array" THEN memStore.items ELSE <<>>

\* read() when getItem may throw: the catch returns the empty sequence
ReadCaught(getThrows) == IF getThrows THEN <<>> ELSE read

\* what write(entries) stores: JSON.stringify(entries.slice(-maxEntries))
WriteValue(entries) == JSONStringify(JsSliceFrom(entries, 0 - maxEntries))

\* the text holds nothing but whitespace
AllSpace(s) == \A i \in 1..Len(s) : IsSpace(s[i])

\* whether one call of the storage may throw
Throws == IF memFaulty THEN BOOLEAN ELSE {FALSE}

\* vaultCall: op, the operation; blank, whether remember's user and assistant
\* were both whitespace only; limit, recall's limit; wrote, whether the
\* operation called setItem; failed, whether its setItem or removeItem threw;
\* kept, whether it left the storage item as it was; before, the kind of the
\* item it found and whether its getItem threw; out, what it returned
NoCall == [op |-> "none", blank |-> FALSE, limit |-> 0, wrote |-> FALSE, failed |-> FALSE,
           kept |-> TRUE, before |-> "none", unread |-> FALSE, out |-> <<>>]

VaultStartWith(item, faulty) ==
    /\ memStore = item
    /\ memFaulty = faulty
    /\ cleared = FALSE
    /\ turns = <<>>
    /\ vaultCall = NoCall

\* a vault over an empty, working storage
VaultStart == VaultStartWith(NoItem, FALSE)

\* the early return of remember
SkipTurn(cleanUser, cleanAssistant) == cleanUser = <<>> /\ cleanAssistant = <<>>

remember(user, assistant, timestamp, getThrows, setThrows) ==
    LET cleanUser == sanitise(user)
        cleanAssistant == sanitise(assistant)
        entry == [user |-> cleanUser, assistant |-> cleanAssistant,
                  timestamp |-> timestamp]
        skip == SkipTurn(cleanUser, cleanAssistant)
        entries == ReadCaught(getThrows)
        stores == ~skip /\ ~setThrows
    IN  /\ skip \/ Len(turns) < MaxTurns
        /\ memStore' = IF stores THEN WriteValue(Append(entries, entry)) ELSE memStore
        /\ turns' = IF stores THEN Append(turns, entry) ELSE turns
        /\ vaultCall' = [NoCall EXCEPT !.op = "remember", !.wrote = ~skip,
                                       !.failed = ~skip /\ setThrows,
                                       !.kept = (memStore' = memStore),
                                       !.before = memStore.kind,
                                       !.unread = ~skip /\ getThrows,
                                       !.blank = AllSpace(user) /\ AllSpace(assistant)]
        /\ UNCHANGED <<maxEntries, memFaulty, cleared>>
        /\ UNCHANGED notVault

\* a clear that writes an empty sequence instead of removing the item
ClearedItem_EmptyArray == JSONStringify(<<>>)

\* what removeItem leaves of the item
ClearedItem == NoItem

clear(removeThrows) ==
    /\ memStore' = IF removeThrows THEN memStore ELSE ClearedItem
    /\ cleared' = (cleared \/ ~removeThrows)
    /\ turns' = IF removeThrows THEN turns ELSE <<>>
    /\ vaultCall' = [NoCall EXCEPT !.op = "clear", !.failed = removeThrows,
                                   !.kept = (memStore' = memStore),
                                   !.before = memStore.kind]
    /\ UNCHANGED <<maxEntries, memFaulty>>
    /\ UNCHANGED notVault

Localise == [t \in Stamps |-> IF t = "t1" THEN "d1" ELSE "d2"]

\* "Q?" and "A?" stand for the placeholders of an empty user and assistant
\* text, "#" followed by the position for the label of an entry without a
\* timestamp
formatEntry(entry, index) ==
    LET date == IF entry.timestamp # "" THEN <<Localise[entry.timestamp]>>
                ELSE <<"#", index + 1>>
        user == truncate(IF entry.user = <<>> THEN <<"Q?">> ELSE entry.user, 140)
        assistant == truncate(IF entry.assistant = <<>> THEN <<"A?">> ELSE entry.assistant, 180)
    IN  date \o <<":", " ">> \o user \o <<" ", "->", " ">> \o assistant

RecallMaxLength == 900

RecallText(entries, limit, maxLength) ==
    IF entries = <<>> THEN <<>>
    ELSE LET latest == JsSliceFrom(entries, 0 - limit)
             formatted == [i \in 1..Len(latest) |-> formatEntry(latest[i], i - 1)]
         IN  truncate(JoinWith(formatted, <<"\n">>), maxLength)

recall(limit, getThrows) ==
    /\ vaultCall' = [NoCall EXCEPT !.op = "recall", !.limit = limit,
                                   !.before = memStore.kind, !.unread = getThrows,
                                   !.out = RecallText(ReadCaught(getThrows), limit,
                                                      RecallMaxLength)]
    /\ UNCHANGED <<maxEntries, memStore, memFaulty, cleared, turns>>
    /\ UNCHANGED notVault

exportAll(getThrows) ==
    /\ vaultCall' = [NoCall EXCEPT !.op = "exportAll", !.before = memStore.kind,
                                   !.unread = getThrows, !.out = ReadCaught(getThrows)]
    /\ UNCHANGED <<maxEntries, memStore, memFaulty, cleared, turns>>
    /\ UNCHANGED notVault

NextVault ==
    \/ \E u \in TextsUpTo(MaxNote), a \in AssistantTexts, t \in Stamps,
          getThrows \in Throws, setThrows \in Throws : remember(u, a, t, getThrows, setThrows)
    \/ \E removeThrows \in Throws : clear(removeThrows)
    \/ \E limit \in 0..MaxLimit, getThrows \in Throws : recall(limit, getThrows)
    \/ \E getThrows \in Throws : exportAll(getThrows)

\* ======================================================== KNOWLEDGE HUB
\* the default connectors, in list order
connectors == <<
    [id |-> "wikipedia", label |-> "W", defaultEnabled |-> TRUE],
    [id |-> "hackernews", label |-> "H", defaultEnabled |-> TRUE],
    [id |-> "openlibrary", label |-> "O", defaultEnabled |-> FALSE] >>

ConnIds == {connectors[i].id : i \in 1..Len(connectors)}

QueryCap == 160

\* sanitiseQuery without its trim
sanitiseQuery_NoTrim(query) == IF query = <<>> THEN <<>> ELSE JsTake(query, QueryCap)

sanitiseQuery(query) == IF query = <<>> THEN <<>> ELSE JsTake(Trim(query), QueryCap)

\* a connector's default taken as true whatever it states
ConnectorEnabled_DefaultIgnored(c) ==
    IF hubEnabled[c.id] = "unset" THEN TRUE ELSE hubEnabled[c.id] = "on"

\* getConnectors(): state.enabled[id] ?? connector.defaultEnabled !== false
ConnectorEnabled(c) ==
    IF hubEnabled[c.id] = "unset"
    THEN (IF "defaultEnabled" \in DOMAIN c THEN c.defaultEnabled ELSE TRUE)
    ELSE hubEnabled[c.id] = "on"

\* getConnectors(): the enabled flag reported for each id of the list
getConnectors ==
    [id \in ConnIds |->
        \E i \in 1..Len(connectors) : connectors[i].id = id /\ ConnectorEnabled(connectors[i])]

\* getConnectors().filter(enabled): positions in the connector list, in list order
RECURSIVE ActiveFrom(_)
ActiveFrom(i) ==
    IF i > Len(connectors) THEN <<>>
    ELSE (IF ConnectorEnabled(connectors[i]) THEN <<i>> ELSE <<>>) \o ActiveFrom(i + 1)

Pending == [kind |-> "pending", text |-> <<>>]

\* what a connector's fetch settles with: content, or a failure message
FetchOutcomes ==
    {[kind |-> "fulfilled", text |-> <<"c">>]}
    \cup {[kind |-> "rejected", text |-> m] : m \in {<<>>, <<"m">>}}

NoResult == [entries |-> <<>>, combinedText |-> <<>>, errors |-> <<>>]

\* g: phase; topic, the sanitised query; blank, whether the query passed was
\* whitespace only; active, the connectors selected (list positions); wanted,
\* the ids of the connectors enabled when the call started; fetched, how often
\* each connector's fetch was invoked; settled, the outcome of each request;
\* order, the requests in the order they settled; changed, the ids passed to
\* setConnectorEnabled while the call waited; result, what gather returned
IdleGather == [phase |-> "idle", topic |-> <<>>, blank |-> TRUE, active |-> <<>>, wanted |-> {},
               fetched |-> [c \in ConnIds |-> 0], settled |-> <<>>,
               order |-> <<>>, changed |-> {}, result |-> NoResult]

\* JSON.stringify(state) for a state whose enabled map is given
HubBlob(enabled) == [kind |-> "object", items |-> enabled]

NothingSet == [c \in ConnIds |-> "unset"]

\* loadState() and the default of state.enabled: what safeParse cannot read
\* counts as {}
loadState(item) == IF item.kind = "object" THEN item.items ELSE NothingSet

\* the callbacks a page subscribes
ListenerNames == {"panel", "chat"}

Listed(ls) == {ls[k] : k \in 1..Len(ls)}

\* hubCall: id and enabled, the arguments; before, what getConnectors reported
\* before the call; raised, whether the call threw; subscribed, the listeners
\* when it was made; invoked, the listeners it called, in order; threw, those
\* of them that threw; seen, the storage item while they ran
NoHubCall == [op |-> "none", id |-> "", enabled |-> FALSE,
              before |-> [c \in ConnIds |-> FALSE], raised |-> FALSE,
              subscribed |-> <<>>, invoked |-> <<>>, threw |-> {}, seen |-> NoItem]

\* the state createKnowledgeHub leaves over a storage that holds the item
HubStartWith(item) ==
    /\ hubEnabled = loadState(item)
    /\ hubStore = item
    /\ g = IdleGather
    /\ listeners = <<>>
    /\ hubCall = NoHubCall

HubStart == HubStartWith(NoItem)

\* notification given up at the first listener that throws
Notified_StopAtThrow(ls, thrown) ==
    IF \E k \in 1..Len(ls) : ls[k] \in thrown
    THEN SubSeq(ls, 1, CHOOSE k \in 1..Len(ls) :
                          ls[k] \in thrown /\ \A j \in 1..(k - 1) : ls[j] \notin thrown)
    ELSE ls

\* listeners.forEach with a try/catch around each call: the listeners called
Notified(ls, thrown) == ls

\* the listeners called before setItem
SeenByListeners_BeforeSave(old, new) == old

\* saveState calls setItem first: the item in storage while the listeners run
SeenByListeners(old, new) == new

\* setConnectorEnabled followed by saveState; setThrows, whether setItem
\* throws; thrown, the listeners that throw when called
setConnectorEnabled(id, enabled, setThrows, thrown, noted) ==
    LET flags == [hubEnabled EXCEPT ![id] = IF enabled THEN "on" ELSE "off"]
        invoked == IF setThrows THEN <<>> ELSE Notified(listeners, thrown)
    IN  /\ thrown \subseteq Listed(listeners)
        /\ hubEnabled' = flags
        /\ hubStore' = IF setThrows THEN hubStore ELSE HubBlob(flags)
        /\ hubCall' = IF noted
                      THEN [op |-> "setConnectorEnabled", id |-> id, enabled |-> enabled,
                            before |-> getConnectors, raised |-> setThrows,
                            subscribed |-> listeners, invoked |-> invoked,
                            threw |-> thrown \cap Listed(invoked),
                            seen |-> IF setThrows THEN hubStore
                                     ELSE SeenByListeners(hubStore, HubBlob(flags))]
                      ELSE NoHubCall
        /\ g' = IF g.phase = "waiting" THEN [g EXCEPT !.changed = @ \cup {id}] ELSE g
        /\ UNCHANGED listeners
        /\ UNCHANGED notHub

\* subscribe(listener): Set.prototype.add
subscribe(listener) ==
    /\ listeners' = IF listener \in Listed(listeners) THEN listeners
                     ELSE Append(listeners, listener)
    /\ UNCHANGED <<hubEnabled, hubStore, g, hubCall>>
    /\ UNCHANGED notHub

\* the function subscribe returned: Set.prototype.delete
unsubscribe(listener) ==
    /\ listeners' = SelectSeq(listeners, LAMBDA l : l # listener)
    /\ UNCHANGED <<hubEnabled, hubStore, g, hubCall>>
    /\ UNCHANGED notHub

NoQueryMessage == <<"no-query">>

\* gather up to its await: sanitise, select, short-circuit or start one
\* fetch per active connector
gatherStart(query) ==
    LET topic == sanitiseQuery(query)
        active == ActiveFrom(1)
        started == [IdleGather EXCEPT
                       !.topic = topic,
                       !.blank = AllSpace(query),
                       !.wanted = {c \in ConnIds : hubEnabled[c] = "on"
                                      \/ (hubEnabled[c] = "unset"
                                            /\ \E i \in 1..Len(connectors) :
                                                 connectors[i].id = c /\ connectors[i].defaultEnabled)}]
    IN  /\ g.phase # "waiting"
        /\ IF active = <<>> \/ topic = <<>>
           THEN g' = [started EXCEPT
                         !.phase = "done",
                         !.result = [NoResult EXCEPT !.errors =
                                        IF topic # <<>> THEN <<>> ELSE <<NoQueryMessage>>]]
           ELSE g' = [started EXCEPT
                         !.phase = "waiting",
                         !.active = active,
                         !.fetched = [c \in ConnIds |->
                                        Cardinality({i \in 1..Len(active) : connectors[active[i]].id = c})],
                         !.settled = [i \in 1..Len(active) |-> Pending]]
        /\ UNCHANGED <<hubEnabled, hubStore, listeners, hubCall>>
        /\ UNCHANGED notHub

\* one pending fetch settles
fetchSettles(i, outcome) ==
    /\ g.phase = "waiting"
    /\ i \in 1..Len(g.active)
    /\ g.settled[i] = Pending
    /\ g' = [g EXCEPT !.settled[i] = outcome, !.order = Append(g.order, i)]
    /\ UNCHANGED <<hubEnabled, hubStore, listeners, hubCall>>
    /\ UNCHANGED notHub

\* Promise.allSettled(requests) resolves
AllSettled(call) == \A i \in 1..Len(call.settled) : call.settled[i] # Pending

\* entries collected as the requests settle
SettledOrder_Completion(call) == call.order

\* the order in which mapSettled visits the settled requests
SettledOrder(call) == [i \in 1..Len(call.active) |-> i]

\* entries named after the connectors enabled when the requests have settled
EntryOf_CurrentFlags(call, i) ==
    LET current == ActiveFrom(1)
        c == connectors[IF i <= Len(current) THEN current[i] ELSE call.active[i]]
        s == call.settled[i]
    IN  IF s.kind = "fulfilled"
        THEN [id |-> c.id, label |-> c.label, hasContent |-> TRUE, content |-> s.text,
              hasError |-> FALSE, error |-> <<>>]
        ELSE [id |-> c.id, label |-> c.label, hasContent |-> FALSE, content |-> <<>>,
              hasError |-> TRUE, error |-> s.text]

\* mapSettled: one entry per request
EntryOf(call, i) ==
    LET c == connectors[call.active[i]]
        s == call.settled[i]
    IN  IF s.kind = "fulfilled"
        THEN [id |-> c.id, label |-> c.label, hasContent |-> TRUE, content |-> s.text,
              hasError |-> FALSE, error |-> <<>>]
        ELSE [id |-> c.id, label |-> c.label, hasContent |-> FALSE, content |-> <<>>,
              hasError |-> TRUE, error |-> s.text]

\* JavaScript truthiness of entry.error
ErrorTruthy(entry) == entry.hasError /\ entry.error # <<>>

\* `${entry.label}: ${entry.content}`
Segment(entry) ==
    <<entry.label, ":", " ">> \o (IF entry.hasContent THEN entry.content ELSE <<"undefined">>)

\* `${entry.label}: ${entry.error}`
ErrorLine(entry) == <<entry.label, ":", " ">> \o entry.error

Successful(entry) == ~ErrorTruthy(entry)

GatherResult(call) ==
    LET visit == SettledOrder(call)
        entries == [k \in 1..Len(visit) |-> EntryOf(call, visit[k])]
        successful == SelectSeq(entries, Successful)
        failed == SelectSeq(entries, ErrorTruthy)
    IN  [entries |-> entries,
         combinedText |-> JoinWith([k \in 1..Len(successful) |-> Segment(successful[k])],
                                   <<"\n", "\n">>),
         errors |-> [k \in 1..Len(failed) |-> ErrorLine(failed[k])]]

\* gather after its await
gatherResume ==
    /\ g.phase = "waiting"
    /\ AllSettled(g)
    /\ g' = [g EXCEPT !.phase = "done", !.result = GatherResult(g)]
    /\ UNCHANGED <<hubEnabled, hubStore, listeners, hubCall>>
    /\ UNCHANGED notHub

\* the enabled flags, their persistence and the subscribers
NextHubState ==
    \/ \E id \in ConnIds, enabled \in BOOLEAN, setThrows \in Throws,
          thrown \in SUBSET ListenerNames :
          setConnectorEnabled(id, enabled, setThrows, thrown, TRUE)
    \/ \E listener \in ListenerNames : subscribe(listener)
    \/ \E listener \in ListenerNames : unsubscribe(listener)

NextHub ==
    \/ \E id \in ConnIds, enabled \in BOOLEAN : setConnectorEnabled(id, enabled, FALSE, {}, FALSE)
    \/ \E query \in TextsUpTo(MaxLen) : gatherStart(query)
    \/ \E i \in 1..Len(connectors), outcome \in FetchOutcomes : fetchSettles(i, outcome)
    \/ gatherResume

\* ====================================================== GPT INTEGRATION
TextItem(text) == [kind |-> "text", items |-> text]

\* storageAPI.getItem('gptApiKey') || ''
StoredKey == IF keyStore.kind = "text" THEN keyStore.items ELSE <<>>

\* what a status text embeds: form and message, the form of formatError and the
\* error message it shows; answer, a reply of the model; stamp, an ISO timestamp
\* prefix, the words applyKeyFromQuery puts in front
NoAbout == [form |-> "", message |-> "", answer |-> <<>>, stamp |-> "", prefix |-> ""]

StatusAbout(text, error, about) == [text |-> text, error |-> error, about |-> about]

Status(text, error) == StatusAbout(text, error, NoAbout)

\* the free tier announced before a stored key
LoadedStatus_FreeTierFirst(key) ==
    IF hasFreeTier THEN Status("free-tier mode active", FALSE)
    ELSE IF key # <<>> THEN Status("key loaded and ready", FALSE)
    ELSE Status("enter a key", FALSE)

\* loadFromStorage: the key, the field and the status by priority
LoadedStatus(key) ==
    IF key # <<>> THEN Status("key loaded and ready", FALSE)
    ELSE IF hasFreeTier THEN Status("free-tier mode active", FALSE)
    ELSE Status("enter a key", FALSE)

\* q: phase; useFreeTier, the option passed; keyAtStart, the in-memory key when
\* the call was made; authKey, the key of the Authorization header; fetchCalls
\* and respondCalls, how often the call invoked fetchImpl and freeTier.respond;
\* reply, what the engine returned; outcome, how the call ended
NoOutcome == [kind |-> "none", value |-> <<>>, code |-> "", message |-> ""]
Resolved(value) == [NoOutcome EXCEPT !.kind = "resolved", !.value = value]
Rejected(code, message) == [NoOutcome EXCEPT !.kind = "rejected", !.code = code, !.message = message]

NoReply == [kind |-> "none", text |-> <<>>, coded |-> FALSE]

IdleQuery == [phase |-> "idle", useFreeTier |-> FALSE, keyAtStart |-> <<>>,
              authKey |-> <<>>, fetchCalls |-> 0, respondCalls |-> 0,
              reply |-> NoReply, outcome |-> NoOutcome]

\* the callers of testKey: the page (test button, save button, API) and
\* applyKeyFromQuery
Testers == {"page", "link"}

\* test[x]: phase ("skipped" when applyKeyFromQuery returned without a testKey
\* call); fromQuery, whether applyKeyFromQuery made the call; fetchCalls,
\* the transport calls of its probes; first and second, how the two probes
\* ended; returned, what testKey returned; left, the status it set last;
\* adopted, the key its persistKey call put in place of another one (<<>>
\* when it changed nothing or when testKey calls overlap); touched, whether another call that may assign
\* the key has run since
IdleTest == [phase |-> "idle", fromQuery |-> FALSE, fetchCalls |-> 0,
             first |-> NoOutcome, second |-> NoOutcome, returned |-> FALSE,
             left |-> Status("", FALSE), adopted |-> <<>>, touched |-> FALSE]

\* the key a testKey call puts in place of another one; not kept when testKey
\* calls overlap
Adopted(p) == IF p.key # gptApiKey /\ ~overlap THEN p.key ELSE <<>>

\* the testKey calls made so far, once another call may have assigned the key
KeyTouched ==
    [x \in Testers |-> IF test[x].adopted = <<>> THEN test[x]
                       ELSE [test[x] EXCEPT !.touched = TRUE]]

\* keyCall: value, the argument of persistKey; field, key, store and status,
\* what it found; wrote, whether it called setItem; returned, what it returned
NoKeyCall == [op |-> "none", value |-> <<>>, field |-> <<>>, key |-> <<>>, store |-> NoItem,
              status |-> Status("", FALSE), wrote |-> FALSE, returned |-> <<>>]

\* the state createGptIntegration leaves: initialise() has run loadFromStorage
GptStart(attached, stored) ==
    /\ hasFreeTier = attached
    /\ keyStore = stored
    /\ gptApiKey = (IF stored.kind = "text" THEN stored.items ELSE <<>>)
    /\ keyField = gptApiKey
    /\ status = LoadedStatus(gptApiKey)
    /\ q = IdleQuery
    /\ busy = FALSE
    /\ test = [x \in Testers |-> IdleTest]
    /\ keyCall = NoKeyCall
    /\ shown = <<>>

\* the input field preferred over the explicit value
ResolveKey_FieldFirst(value) ==
    LET inputValue == Trim(value)
        fieldValue == Trim(keyField)
    IN  IF fieldValue # <<>> THEN fieldValue ELSE inputValue

\* persistKey: resolved = inputValue || fieldValue
ResolveKey(value) ==
    LET inputValue == Trim(value)
        fieldValue == Trim(keyField)
    IN  IF inputValue # <<>> THEN inputValue ELSE fieldValue

\* persistKey: the key, item, field and status it leaves and what it returns
PersistKey(value, silent, message) ==
    LET resolved == ResolveKey(value)
    IN  IF resolved = <<>>
        THEN [key |-> gptApiKey, store |-> keyStore, field |-> keyField,
              status |-> status, wrote |-> FALSE, returned |-> <<>>]
        ELSE [key |-> resolved,
              store |-> IF resolved # gptApiKey THEN TextItem(resolved) ELSE keyStore,
              field |-> resolved,
              status |-> IF silent THEN status
                         ELSE Status(IF message # "" THEN message ELSE "key saved", FALSE),
              wrote |-> resolved # gptApiKey,
              returned |-> resolved]

\* the user edits the key field (no change event yet)
typeKey(text) ==
    /\ keyField' = text
    /\ UNCHANGED <<hasFreeTier, gptApiKey, keyStore, status, q>>
    /\ keyCall' = NoKeyCall
    /\ UNCHANGED <<busy, test>>
    /\ UNCHANGED notGpt

\* persistKey called by the change handler (value '', silent) or by a caller;
\* noted: whether the call is recorded in keyCall
persistKey(value, silent, noted) ==
    LET p == PersistKey(value, silent, "")
    IN  /\ gptApiKey' = p.key
        /\ keyStore' = p.store
        /\ keyField' = p.field
        /\ status' = p.status
        /\ keyCall' = IF noted
                       THEN [op |-> "persistKey", value |-> value, field |-> keyField,
                             key |-> gptApiKey, store |-> keyStore, status |-> status,
                             wrote |-> p.wrote, returned |-> p.returned]
                       ELSE NoKeyCall
        /\ test' = KeyTouched
        /\ UNCHANGED <<hasFreeTier, q, busy>>
        /\ UNCHANGED notGpt

loadFromStorage ==
    /\ gptApiKey' = StoredKey
    /\ keyField' = StoredKey
    /\ status' = LoadedStatus(StoredKey)
    /\ UNCHANGED <<hasFreeTier, keyStore, q>>
    /\ keyCall' = NoKeyCall
    /\ test' = KeyTouched
    /\ UNCHANGED busy
    /\ UNCHANGED notGpt

\* a clearKey that forgets the stored item
clearKey_KeepsItem ==
    /\ gptApiKey' = <<>>
    /\ keyField' = <<>>
    /\ status' = Status("key removed", FALSE)
    /\ keyCall' = NoKeyCall
    /\ UNCHANGED <<hasFreeTier, keyStore, q, busy, test>>
    /\ UNCHANGED notGpt

clearKey ==
    /\ gptApiKey' = <<>>
    /\ keyStore' = NoItem
    /\ keyField' = <<>>
    /\ status' = IF hasFreeTier THEN Status("key removed, free tier available", FALSE)
                 ELSE Status("key removed", FALSE)
    /\ UNCHANGED <<hasFreeTier, q>>
    /\ keyCall' = NoKeyCall
    /\ test' = KeyTouched
    /\ UNCHANGED busy
    /\ UNCHANGED notGpt

\* ensureKey() consulted before the free tier
QueryRoute_KeyFirst(useFreeTier) ==
    IF gptApiKey # <<>> THEN "cloud" ELSE "ensureKey"

\* the free tier preferred over a stored key
QueryRoute_FreeFirst(useFreeTier) ==
    IF useFreeTier /\ hasFreeTier THEN "free"
    ELSE IF gptApiKey # <<>> THEN "cloud"
    ELSE "ensureKey"

\* which branch of query runs: the cloud call, the free-tier engine, or the
\* final ensureKey()
QueryRoute(useFreeTier) ==
    IF gptApiKey # <<>> THEN "cloud"
    ELSE IF useFreeTier /\ hasFreeTier THEN "free"
    ELSE "ensureKey"

\* query up to its first await, or to its end on the ensureKey branch
queryStart(useFreeTier) ==
    LET route == QueryRoute(useFreeTier)
        call == [IdleQuery EXCEPT !.useFreeTier = useFreeTier, !.keyAtStart = gptApiKey]
        \* ensureKey(): with no key it first tries persistKey('', {silent: true})
        p == IF gptApiKey = <<>> THEN PersistKey(<<>>, TRUE, "")
             ELSE [key |-> gptApiKey, store |-> keyStore, field |-> keyField, status |-> status]
    IN  /\ q.phase \in {"idle", "done"}
        /\ IF route = "cloud"
           THEN /\ q' = [call EXCEPT !.phase = "fetching", !.fetchCalls = 1, !.authKey = p.key]
                /\ UNCHANGED <<gptApiKey, keyStore, keyField, status>>
           ELSE IF route = "free"
           THEN /\ q' = [call EXCEPT !.phase = "responding", !.respondCalls = 1]
                /\ UNCHANGED <<gptApiKey, keyStore, keyField, status>>
           ELSE /\ gptApiKey' = p.key
                /\ keyStore' = p.store
                /\ keyField' = p.field
                /\ status' = p.status
                /\ q' = [call EXCEPT
                            !.phase = "done",
                            !.outcome = IF p.key = <<>>
                                        THEN Rejected("NO_KEY", "add a key")
                                        ELSE Resolved(<<"undefined">>)]
        /\ UNCHANGED hasFreeTier
        /\ keyCall' = NoKeyCall
        /\ test' = KeyTouched
        /\ UNCHANGED busy
        /\ UNCHANGED notGpt

ReplyTexts == {<<>>, <<" ">>, <<"a">>, <<" ", "a", " ">>}

\* what fetchImpl gives: a failure, or a response with ok, data.choices[0]
\* .message.content (present or not) and data.error.message (present or not);
\* a body that is not JSON reads as {} (neither present)
FetchReplies ==
    {[kind |-> "throws", ok |-> FALSE, hasContent |-> FALSE, content |-> <<>>, hasMessage |-> FALSE]}
    \cup {[kind |-> "response", ok |-> TRUE, hasContent |-> TRUE, content |-> t, hasMessage |-> FALSE]
            : t \in ReplyTexts}
    \cup {[kind |-> "response", ok |-> o, hasContent |-> FALSE, content |-> <<>>, hasMessage |-> m]
            : o \in BOOLEAN, m \in BOOLEAN}

\* the completion text taken without trimming
CloudOutcome_NoTrim(r) ==
    IF r.kind = "throws" THEN Rejected("", "transport failure")
    ELSE IF ~r.ok
         THEN Rejected("API_ERROR", IF r.hasMessage THEN "server message"
                                    ELSE "API error (status)")
    ELSE IF ~r.hasContent \/ r.content = <<>>
         THEN Rejected("EMPTY_RESPONSE", "empty answer")
    ELSE Resolved(r.content)

\* how the key branch of query ends once the transport has answered
CloudOutcome(r) ==
    IF r.kind = "throws" THEN Rejected("", "transport failure")
    ELSE IF ~r.ok
         THEN Rejected("API_ERROR", IF r.hasMessage THEN "server message"
                                    ELSE "API error (status)")
    ELSE IF ~r.hasContent \/ Trim(r.content) = <<>>
         THEN Rejected("EMPTY_RESPONSE", "empty answer")
    ELSE Resolved(Trim(r.content))

\* query after the transport call
fetchReturns(r) ==
    /\ q.phase = "fetching"
    /\ q' = [q EXCEPT
               !.phase = "done",
               !.outcome = CloudOutcome(r)]
    /\ UNCHANGED <<hasFreeTier, gptApiKey, keyField, keyStore, status>>
    /\ keyCall' = NoKeyCall
    /\ UNCHANGED <<busy, test>>
    /\ UNCHANGED notGpt

\* what freeTier.respond gives: a string, another value, or a failure that
\* carries a code or not
EngineReplies ==
    {[kind |-> "string", text |-> t, coded |-> FALSE] : t \in ReplyTexts}
    \cup {[kind |-> "other", text |-> <<>>, coded |-> FALSE]}
    \cup {[kind |-> "throws", text |-> <<>>, coded |-> c] : c \in BOOLEAN}

\* every engine failure wrapped, coded or not
EngineOutcome_WrapsAll(r) ==
    IF r.kind = "throws" THEN Rejected("FREE_TIER_FAILED", "engine failure")
    ELSE LET text == IF r.kind = "string" THEN Trim(r.text) ELSE <<>>
         IN  IF text = <<>> THEN Rejected("FREE_TIER_EMPTY", "no answer")
             ELSE Resolved(text)

\* how the free-tier branch of query ends once the engine has answered
EngineOutcome(r) ==
    IF r.kind = "throws"
    THEN (IF r.coded THEN Rejected("ENGINE_CODE", "engine failure")
          ELSE Rejected("FREE_TIER_FAILED", "engine failure"))
    ELSE LET text == IF r.kind = "string" THEN Trim(r.text) ELSE <<>>
         IN  IF text = <<>> THEN Rejected("FREE_TIER_EMPTY", "no answer")
             ELSE Resolved(text)

\* query after freeTier.respond
respondReturns(r) ==
    /\ q.phase = "responding"
    /\ q' = [q EXCEPT
               !.phase = "done",
               !.reply = r,
               !.outcome = EngineOutcome(r)]
    /\ UNCHANGED <<hasFreeTier, gptApiKey, keyField, keyStore, status>>
    /\ keyCall' = NoKeyCall
    /\ UNCHANGED <<busy, test>>
    /\ UNCHANGED notGpt

\* formatError that shows no message
formatError_NoMessage(error) ==
    IF error.kind # "rejected" THEN [form |-> "unknown", message |-> ""]
    ELSE IF error.code = "NO_KEY" THEN [form |-> "no-key", message |-> ""]
    ELSE IF error.code = "FREE_TIER_EMPTY" THEN [form |-> "free-tier-empty", message |-> ""]
    ELSE IF error.code = "FREE_TIER_FAILED" THEN [form |-> "free-tier-failed", message |-> ""]
    ELSE [form |-> "gpt-error", message |-> ""]

\* formatError: which of its texts it gives and the error message in it
formatError(error) ==
    IF error.kind # "rejected" THEN [form |-> "unknown", message |-> ""]
    ELSE IF error.code = "NO_KEY" THEN [form |-> "no-key", message |-> ""]
    ELSE IF error.code = "FREE_TIER_EMPTY" THEN [form |-> "free-tier-empty", message |-> ""]
    ELSE IF error.code = "FREE_TIER_FAILED"
         THEN [form |-> "free-tier-failed", message |-> error.message]
    ELSE [form |-> "gpt-error", message |-> error.message]

\* the errors formatError is given: none, or one with a code (or without)
\* and a message
FormatErrors ==
    {NoOutcome}
    \cup {Rejected(code, message) :
            code \in {"", "NO_KEY", "API_ERROR", "EMPTY_RESPONSE", "FREE_TIER_EMPTY",
                      "FREE_TIER_FAILED"},
            message \in {"m1", "m2"}}

\* formatError(error) called through the integration's API; the call before
\* it is kept for comparison
formatErrorCall(error) ==
    /\ shown' = <<[error |-> error, text |-> formatError(error)]>>
                       \o (IF shown = <<>> THEN <<>> ELSE <<shown[1]>>)
    /\ UNCHANGED <<vaultVars, hubVars, gptVars, engineVars, twin>>

NextFormat == \E error \in FormatErrors : formatErrorCall(error)

\* the ISO timestamp buildDateTimeProbe embeds in the probe
IsoStamp == "iso"

\* the statuses testKey sets as it returns
FailedStatus(error) ==
    LET f == formatError(error)
    IN  StatusAbout("test failed", TRUE,
                    [NoAbout EXCEPT !.form = f.form, !.message = f.message])

TimeFailedStatus(error) ==
    LET f == formatError(error)
    IN  StatusAbout("key confirmed, time probe failed", TRUE,
                    [NoAbout EXCEPT !.form = f.form, !.message = f.message])

ActiveStatus(answer) ==
    StatusAbout("integration active", FALSE,
                [NoAbout EXCEPT !.answer = answer, !.stamp = IsoStamp])

ConfirmedStatus(answer) ==
    StatusAbout("key confirmed, asking the time", FALSE, [NoAbout EXCEPT !.answer = answer])

\* applyKeyFromQuery after a testKey that returned false
LinkFailedStatus(previous) ==
    IF previous.text = "" THEN StatusAbout("check the key of the link", TRUE,
                                           [NoAbout EXCEPT !.prefix = "link key saved"])
    ELSE StatusAbout(previous.text, TRUE, [previous.about EXCEPT !.prefix = "link key saved"])

\* testKey returns: what it leaves in the status, the call record and busy
TestEnds(x, call, returned, left) ==
    /\ test' = [test EXCEPT ![x] = [call EXCEPT !.phase = "done", !.returned = returned,
                                                !.left = left]]
    /\ status' = IF call.fromQuery /\ ~returned THEN LinkFailedStatus(left) ELSE left
    /\ busy' = FALSE

\* a testKey that keeps the candidate in memory only
TestBegins_NotStored(x, p, text, fromQuery) ==
    /\ gptApiKey' = p.key
    /\ keyStore' = keyStore
    /\ keyField' = p.field
    /\ status' = Status(text, FALSE)
    /\ busy' = TRUE
    /\ test' = [KeyTouched EXCEPT ![x] = [IdleTest EXCEPT !.phase = "confirming",
                                                        !.fromQuery = fromQuery,
                                                        !.fetchCalls = 1,
                                                        !.adopted = Adopted(p)]]

\* testKey from persistKey on: p is what persistKey left; the first probe is
\* sent with the key in memory
TestBegins(x, p, text, fromQuery) ==
    /\ gptApiKey' = p.key
    /\ keyStore' = p.store
    /\ keyField' = p.field
    /\ status' = Status(text, FALSE)
    /\ busy' = TRUE
    /\ test' = [KeyTouched EXCEPT ![x] = [IdleTest EXCEPT !.phase = "confirming",
                                                        !.fromQuery = fromQuery,
                                                        !.fetchCalls = 1,
                                                        !.adopted = Adopted(p)]]

\* caller x has no testKey call in flight
Free(x) == test[x].phase \in {"idle", "done", "skipped"}

\* the prompt of testKey, shown without the error colour
PromptStatus_NotFlagged == Status("enter a key before testing", FALSE)

\* what testKey shows when there is nothing to test
PromptStatus == Status("enter a key before testing", TRUE)

\* testKey({candidate, message}) up to its first await
testKey(x, candidate, message) ==
    LET resolvedCandidate == ResolveKey(candidate)
        p == PersistKey(resolvedCandidate, TRUE, "")
        isNewCandidate == p.returned # <<>> /\ p.returned # gptApiKey
    IN  /\ Free(x)
        /\ IF resolvedCandidate = <<>> /\ gptApiKey = <<>>
           THEN /\ status' = PromptStatus
                /\ test' = [test EXCEPT ![x] = [IdleTest EXCEPT !.phase = "done",
                                                              !.left = status']]
                /\ UNCHANGED <<gptApiKey, keyStore, keyField, busy>>
           ELSE TestBegins(x, p, IF message # "" THEN message
                                 ELSE IF isNewCandidate THEN "key saved, testing"
                                 ELSE "testing", FALSE)
        /\ keyCall' = NoKeyCall
        /\ UNCHANGED <<hasFreeTier, q>>
        /\ UNCHANGED notGpt

\* click on the save button
saveClick(x) ==
    LET p == PersistKey(<<>>, TRUE, "")
    IN  /\ Free(x)
        /\ ~busy
        /\ IF p.returned = <<>>
           THEN /\ status' = Status("enter a key before saving", TRUE)
                /\ UNCHANGED <<gptApiKey, keyStore, keyField, busy, test>>
           ELSE TestBegins(x, p, "key saved, checking access", FALSE)
        /\ keyCall' = NoKeyCall
        /\ UNCHANGED <<hasFreeTier, q>>
        /\ UNCHANGED notGpt

\* locationHref: absent, not a URL, or a URL with or without an sk parameter
NoLocation == [kind |-> "absent", hasSk |-> FALSE, sk |-> <<>>]
Unparsable == [kind |-> "unparsable", hasSk |-> FALSE, sk |-> <<>>]
Url(hasSk, sk) == [kind |-> "url", hasSk |-> hasSk, sk |-> sk]

\* the sk parameter taken as it stands
KeyFromQuery_Untrimmed(href) ==
    IF href.kind # "url" \/ ~href.hasSk THEN <<>> ELSE href.sk

\* (coerceUrl(locationHref).searchParams.get('sk') || '').trim(), <<>> when
\* there is no URL
KeyFromQuery(href) ==
    IF href.kind # "url" \/ ~href.hasSk THEN <<>> ELSE Trim(href.sk)

\* applyKeyFromQuery up to the first await of its testKey call, or to its
\* return when the location carries no key
applyKeyFromQuery(x, href) ==
    LET keyFromQuery == KeyFromQuery(href)
        p == PersistKey(keyFromQuery, TRUE, "")
    IN  /\ Free(x)
        /\ IF keyFromQuery = <<>>
           THEN /\ test' = [test EXCEPT ![x] = [IdleTest EXCEPT !.phase = "skipped",
                                                              !.fromQuery = TRUE]]
                /\ UNCHANGED <<gptApiKey, keyStore, keyField, status, busy>>
           ELSE TestBegins(x, p, "link key saved, checking access", TRUE)
        /\ keyCall' = NoKeyCall
        /\ UNCHANGED <<hasFreeTier, q>>
        /\ UNCHANGED notGpt

\* the confirmation probe is answered; on success the date/time probe starts
confirmationReturns(x, r) ==
    LET call == [test[x] EXCEPT !.first = CloudOutcome(r)]
        \* query of the date/time probe with no key in memory: ensureKey()
        p == PersistKey(<<>>, TRUE, "")
    IN  /\ test[x].phase = "confirming"
        /\ IF call.first.kind = "rejected"
           THEN /\ TestEnds(x, call, FALSE, FailedStatus(call.first))
                /\ UNCHANGED <<gptApiKey, keyStore, keyField>>
           ELSE IF gptApiKey # <<>>
           THEN /\ test' = [test EXCEPT ![x] = [call EXCEPT !.phase = "timing",
                                                           !.fetchCalls = 2]]
                /\ status' = ConfirmedStatus(call.first.value)
                /\ UNCHANGED <<gptApiKey, keyStore, keyField, busy>>
           ELSE /\ gptApiKey' = p.key
                /\ keyStore' = p.store
                /\ keyField' = p.field
                /\ IF p.key = <<>>
                   THEN LET failure == Rejected("NO_KEY", "add a key")
                        IN  TestEnds(x, [call EXCEPT !.second = failure], FALSE,
                                     TimeFailedStatus(failure))
                   ELSE TestEnds(x, [call EXCEPT !.second = Resolved(<<"undefined">>)], TRUE,
                                 ActiveStatus(<<"undefined">>))
        /\ keyCall' = NoKeyCall
        /\ UNCHANGED <<hasFreeTier, q>>
        /\ UNCHANGED notGpt

\* what fetchImpl gives the date/time probe: as for any request, or an answer
\* that repeats the ISO timestamp
ProbeReplies ==
    FetchReplies
    \cup {[kind |-> "response", ok |-> TRUE, hasContent |-> TRUE,
           content |-> <<IsoStamp, " ", "a">>, hasMessage |-> FALSE]}

\* the date/time probe is answered
timeProbeReturns(x, r) ==
    LET call == [test[x] EXCEPT !.second = CloudOutcome(r)]
    IN  /\ test[x].phase = "timing"
        /\ IF call.second.kind = "rejected"
           THEN TestEnds(x, call, FALSE, TimeFailedStatus(call.second))
           ELSE TestEnds(x, call, TRUE, ActiveStatus(call.second.value))
        /\ keyCall' = NoKeyCall
        /\ UNCHANGED <<hasFreeTier, q, gptApiKey, keyStore, keyField>>
        /\ UNCHANGED notGpt

\* the key life cycle on its own, every persistKey call recorded
NextGptKey ==
    \/ \E text \in TextsUpTo(MaxLen) : typeKey(text)
    \/ \E value \in TextsUpTo(MaxLen), silent \in BOOLEAN : persistKey(value, silent, TRUE)
    \/ loadFromStorage
    \/ clearKey

\* what is typed into the field, passed as a key or carried by the link
\* while keys are tested
TypedKeys == {<<>>, <<"a">>, <<" ", "b">>}

\* the locations a page is opened with
Locations ==
    {NoLocation, Unparsable, Url(FALSE, <<>>), Url(TRUE, <<" ">>)}
    \cup {Url(TRUE, sk) : sk \in TypedKeys}

\* the callers whose testKey calls may be in flight together
ActiveTesters == IF overlap THEN Testers ELSE {"page"}

\* the key life cycle and testKey
NextGptTest ==
    \/ \E text \in TypedKeys : typeKey(text)
    \/ \E value \in TypedKeys, silent \in BOOLEAN : persistKey(value, silent, FALSE)
    \/ loadFromStorage
    \/ clearKey
    \/ \E x \in ActiveTesters, candidate \in TypedKeys, message \in {"", "custom"} :
          testKey(x, candidate, message)
    \/ \E x \in ActiveTesters : saveClick(x)
    \/ \E x \in ActiveTesters, href \in Locations : applyKeyFromQuery(x, href)
    \/ \E x \in Testers, r \in FetchReplies : confirmationReturns(x, r)
    \/ \E x \in Testers, r \in ProbeReplies : timeProbeReturns(x, r)

NextGpt ==
    \/ \E text \in TextsUpTo(MaxLen) : typeKey(text)
    \/ \E value \in TextsUpTo(MaxLen), silent \in BOOLEAN : persistKey(value, silent, FALSE)
    \/ loadFromStorage
    \/ clearKey
    \/ \E useFreeTier \in BOOLEAN : queryStart(useFreeTier)
    \/ \E r \in FetchReplies : fetchReturns(r)
    \/ \E r \in EngineReplies : respondReturns(r)

\* ===================================================== FREE-TIER ENGINE
\* the callers of respond: the chat, and a second caller whose calls overlap
\* the chat's
Callers == {"chat", "second"}

ActiveCallers == IF overlap THEN Callers ELSE {"chat"}

\* String.prototype.toLowerCase, one character
Lower(c) == IF c = "A" THEN "a" ELSE IF c = "B" THEN "b" ELSE c

\* normaliseTopic without the lower-casing
normaliseTopic_CaseKept(text) == IF text = <<>> THEN <<>> ELSE Trim(CollapseSpaces(text))

normaliseTopic(text) ==
    IF text = <<>> THEN <<>>
    ELSE Trim(CollapseSpaces([i \in 1..Len(text) |-> Lower(text[i])]))

limitText(text, maxLength) ==
    IF Len(text) > maxLength THEN JsTake(text, maxLength) \o <<"...">> ELSE text

\* the slot of a new engine
NoAggregation == [topic |-> <<>>, originalTopic |-> <<>>, combinedText |-> <<>>,
                  entries |-> <<>>, errors |-> <<>>, timestamp |-> 0]

NoRequestMessage == <<"no-request-yet">>

\* a no-request aggregation without its error
NoRequestAggregation_Blank(time) == [NoAggregation EXCEPT !.timestamp = time]

\* the aggregation ensureAggregation sets when there is no topic
NoRequestAggregation(time) ==
    [NoAggregation EXCEPT !.errors = <<NoRequestMessage>>, !.timestamp = time]

\* an age at which the slot is still reused: the limit included
CacheFresh_Inclusive(age) == age <= cacheTtl

\* Date.now() - aggregation.timestamp < cacheTtl
CacheFresh(age) == age < cacheTtl

\* isCached without the comparison of topics
IsCached_AnyTopic(normalised) ==
    /\ normalised # <<>>
    /\ CacheFresh(now - aggregation.timestamp)

\* isCached of ensureAggregation
IsCached(normalised) ==
    /\ normalised # <<>>
    /\ aggregation.topic = normalised
    /\ CacheFresh(now - aggregation.timestamp)

User(content) == [role |-> "user", content |-> content]
Assistant == [role |-> "assistant", content |-> <<"r">>]

\* the message lists passed to respond
MessageLists ==
    {<<>>, <<Assistant>>, <<User(<<" ">>)>>, <<User(<<"a">>)>>, <<User(<<"A", " ">>)>>,
     <<User(<<"b">>)>>, <<User(<<"a">>), Assistant>>, <<User(<<"a">>), User(<<"b">>)>>,
     <<User(<<"b">>), Assistant, User(<<>>)>>}

\* [...messages].reverse().find(role === 'user')?.content?.trim() || ''
RECURSIVE LastUserTopic(_)
LastUserTopic(messages) ==
    IF messages = <<>> THEN <<>>
    ELSE IF messages[Len(messages)].role = "user"
         THEN Trim(messages[Len(messages)].content)
         ELSE LastUserTopic(SubSeq(messages, 1, Len(messages) - 1))

\* what memoryVault.recall gives: a summary (maybe empty), or a failure
RecallOutcomes ==
    {[kind |-> "returns", text |-> t] : t \in {<<>>, <<"m">>}}
    \cup {[kind |-> "throws", text |-> <<>>]}

\* what knowledgeHub.gather settles with: a result, or a failure message
GatherOutcomes ==
    {[kind |-> "fulfilled", combinedText |-> <<"c">>, entries |-> <<"W">>, errors |-> <<>>],
     [kind |-> "fulfilled", combinedText |-> <<>>, entries |-> <<"W">>, errors |-> << <<"x">> >>],
     [kind |-> "fulfilled", combinedText |-> <<>>, entries |-> <<>>, errors |-> <<>>],
     [kind |-> "rejected", combinedText |-> <<>>, entries |-> <<>>, errors |-> << <<"r">> >>]}

GatherLimit == 4

\* a failure of gather kept without its message
Gathered_FailureForgotten(topicText, outcome, time) ==
    [topic |-> normaliseTopic(topicText), originalTopic |-> topicText,
     combinedText |-> IF outcome.kind = "rejected" THEN <<>> ELSE outcome.combinedText,
     entries |-> IF outcome.kind = "rejected" THEN <<>> ELSE outcome.entries,
     errors |-> IF outcome.kind = "rejected" THEN <<>> ELSE outcome.errors,
     timestamp |-> time]

\* the aggregation ensureAggregation assigns once gather has settled: from the
\* result, or in the catch from the message of the failure (errors[1] of a
\* rejected outcome)
Gathered(topicText, outcome, time) ==
    [topic |-> normaliseTopic(topicText), originalTopic |-> topicText,
     combinedText |-> IF outcome.kind = "rejected" THEN <<>> ELSE outcome.combinedText,
     entries |-> IF outcome.kind = "rejected" THEN <<>> ELSE outcome.entries,
     errors |-> IF outcome.kind = "rejected" THEN <<outcome.errors[1]>> ELSE outcome.errors,
     timestamp |-> time]

buildKnowledgeBlock(data) ==
    IF data.combinedText # <<>> THEN <<"dossier:", "\n">> \o limitText(data.combinedText, 900)
    ELSE IF data.errors # <<>> THEN <<"sources-unavailable:", " ">> \o data.errors[1]
    ELSE <<"sources-not-used">>

buildPlan(topic, knowledge, memorySummary) ==
    LET steps == <<
            IF topic # <<>> THEN <<"1-task:", " ">> \o topic ELSE <<"1-awaiting-task">>,
            IF knowledge.combinedText # <<>> THEN <<"2-facts">>
            ELSE IF knowledge.errors # <<>> THEN <<"2-sources-failed">>
            ELSE <<"2-sources-ready">>,
            IF memorySummary # <<>> THEN <<"3-with-memory">> ELSE <<"3-fresh">>,
            <<"4-next">> >>
    IN  <<"plan:", "\n">> \o JoinWith(steps, <<"\n">>)

\* the text respond returns
ReplyText(topic, data, memorySummary) ==
    JoinWith(<<
        <<"free-tier-header">>,
        IF topic # <<>> THEN <<"request:", " ">> \o topic ELSE <<"awaiting-question">>,
        buildKnowledgeBlock(data),
        IF memorySummary # <<>> THEN <<"memory:", " ">> \o limitText(memorySummary, 420)
        ELSE <<"no-memory">>,
        buildPlan(topic, data, memorySummary),
        <<"footer">> >>, <<"\n", "\n">>)

\* the topic, text and errors of an aggregation
Digest(data) == [topic |-> data.topic, combinedText |-> data.combinedText,
                 errors |-> data.errors]

\* the topic, text and errors of the slot
Seen(data) == [topic |-> data.topic, combinedText |-> data.combinedText,
               errors |-> data.errors]

\* resp[caller]: phase; topic, the trimmed content of the last user message;
\* asked, the text passed to ensureAggregation; found, the topic, text and
\* errors of the slot when respond was called and age, the slot's age then;
\* gatherCalls, gatherArg and gatherLimit: the calls of knowledgeHub.gather and
\* their arguments; failure, the message gather rejected with (<<>> when it
\* did not); data, the digest of the aggregation the reply was built from;
\* outcome, how the call ended
IdleRespond == [phase |-> "idle", topic |-> <<>>, asked |-> <<>>,
                found |-> Seen(NoAggregation), age |-> 0,
                gatherCalls |-> 0, gatherArg |-> <<>>, gatherLimit |-> 0,
                failure |-> <<>>,
                data |-> Digest(NoAggregation), outcome |-> NoOutcome]

\* lastWrite: by, "record" or the caller whose respond assigned the slot;
\* at, what Date.now() read then; topic, combinedText, entries, errors: what
\* recordAggregation was given; readers, the callers whose last respond was
\* called after that assignment
NoWrite == [by |-> "none", at |-> 0, topic |-> <<>>, combinedText |-> <<>>,
            entries |-> <<>>, errors |-> <<>>, readers |-> {}]

ReadBy(caller) == [lastWrite EXCEPT !.readers = @ \cup {caller}]

WriteBy(caller) == [NoWrite EXCEPT !.by = caller, !.at = now]

Runs == {"one", "other"}

EngineStart(ttl, overlapping) ==
    /\ twin = [r \in Runs |-> [time |-> 0, slot |-> NoAggregation, text |-> <<>>]]
    /\ cacheTtl = ttl
    /\ overlap = overlapping
    /\ lastWrite = NoWrite
    /\ now = 0
    /\ aggregation = NoAggregation
    /\ resp = [c \in Callers |-> IdleRespond]

\* a respond that builds its reply from the slot as another call left it
Finish_FromSlot(call, data, recalled) ==
    [call EXCEPT
        !.phase = "done",
        !.data = Digest(aggregation),
        !.outcome = IF recalled.kind = "throws" THEN Rejected("", "recall failure")
                    ELSE Resolved(ReplyText(call.topic, aggregation, recalled.text))]

\* the rest of respond once ensureAggregation has returned data
Finish(call, data, recalled) ==
    [call EXCEPT
        !.phase = "done",
        !.data = Digest(data),
        !.outcome = IF recalled.kind = "throws" THEN Rejected("", "recall failure")
                    ELSE Resolved(ReplyText(call.topic, data, recalled.text))]

\* respond up to the await of gather, or to its end when no gather is needed
respondStart(caller, messages, recalled) ==
    LET topic == LastUserTopic(messages)
        asked == IF topic # <<>> THEN topic ELSE aggregation.originalTopic
        normalised == normaliseTopic(asked)
        call == [IdleRespond EXCEPT !.topic = topic, !.asked = asked,
                                    !.found = Seen(aggregation),
                                    !.age = now - aggregation.timestamp]
    IN  /\ resp[caller].phase \in {"idle", "done"}
        /\ IF IsCached(normalised)
           THEN /\ resp' = [resp EXCEPT ![caller] = Finish(call, aggregation, recalled)]
                /\ lastWrite' = ReadBy(caller)
                /\ UNCHANGED aggregation
           ELSE IF normalised = <<>>
           THEN /\ aggregation' = NoRequestAggregation(now)
                /\ lastWrite' = WriteBy(caller)
                /\ resp' = [resp EXCEPT ![caller] = Finish(call, aggregation', recalled)]
           ELSE /\ resp' = [resp EXCEPT ![caller] =
                            [call EXCEPT !.phase = "gathering", !.gatherCalls = 1,
                                         !.gatherArg = asked, !.gatherLimit = GatherLimit]]
                /\ lastWrite' = ReadBy(caller)
                /\ UNCHANGED aggregation
        /\ UNCHANGED <<cacheTtl, now, overlap>>
        /\ UNCHANGED notEngine

\* the gather of one respond settles and respond runs to its end
gatherSettles(caller, outcome, recalled) ==
    /\ resp[caller].phase = "gathering"
    /\ aggregation' = Gathered(resp[caller].asked, outcome, now)
    /\ lastWrite' = WriteBy(caller)
    /\ resp' = [resp EXCEPT ![caller] =
                    Finish([resp[caller] EXCEPT !.failure = IF outcome.kind = "rejected"
                                                            THEN <<outcome.errors[1]>>
                                                            ELSE <<>>],
                           aggregation', recalled)]
    /\ UNCHANGED <<cacheTtl, now, overlap>>
    /\ UNCHANGED notEngine

RecordTopics == {<<>>, <<"A", " ">>, <<"b">>}

\* what recordAggregation is given besides the topic
Recordings ==
    {[combinedText |-> <<"k">>, entries |-> <<"W">>, errors |-> <<>>],
     [combinedText |-> <<>>, entries |-> <<>>, errors |-> << <<"x">> >>],
     [combinedText |-> <<>>, entries |-> <<>>, errors |-> <<>>]}

\* a recordAggregation that keeps the timestamp of the slot it replaces
RecordStamp_Kept == aggregation.timestamp

\* the timestamp recordAggregation gives the slot: Date.now()
RecordStamp == now

recordAggregation(topic, combinedText, entries, errors) ==
    /\ aggregation' = [topic |-> normaliseTopic(topic),
                       originalTopic |-> topic,
                       combinedText |-> combinedText,
                       entries |-> entries,
                       errors |-> errors,
                       timestamp |-> RecordStamp]
    /\ lastWrite' = [by |-> "record", at |-> now, topic |-> topic,
                     combinedText |-> combinedText, entries |-> entries, errors |-> errors,
                     readers |-> {}]
    /\ UNCHANGED <<cacheTtl, now, resp, overlap>>
    /\ UNCHANGED notEngine

\* time passes
tick ==
    /\ now < MaxTime
    /\ now' = now + 1
    /\ UNCHANGED <<cacheTtl, aggregation, resp, overlap, lastWrite>>
    /\ UNCHANGED notEngine

\* ensureAggregation over a given slot and reading of Date.now(), with the
\* outcome gather would settle with
ensureAggregationAt(slot, time, topicText, outcome) ==
    LET normalised == normaliseTopic(topicText)
    IN  IF normalised # <<>> /\ slot.topic = normalised /\ CacheFresh(time - slot.timestamp)
        THEN slot
        ELSE IF normalised = <<>> THEN NoRequestAggregation(time)
        ELSE Gathered(topicText, outcome, time)

\* respond in one run: the slot it leaves and the text it returns
respondAt(run, messages, outcome, recalled) ==
    LET topic == LastUserTopic(messages)
        data == ensureAggregationAt(run.slot, run.time,
                                    IF topic # <<>> THEN topic ELSE run.slot.originalTopic,
                                    outcome)
    IN  [run EXCEPT !.slot = data,
                    !.text = IF recalled.kind = "throws" THEN <<"recall failure">>
                             ELSE ReplyText(topic, data, recalled.text)]

\* the same respond call in both runs: same messages, same hub result, same
\* memory
twinRespond(messages, outcome, recalled) ==
    /\ twin' = [r \in Runs |-> respondAt(twin[r], messages, outcome, recalled)]
    /\ UNCHANGED <<vaultVars, hubVars, gptVars, engineVars, shown>>

\* the same recordAggregation call in both runs
twinRecord(topic, given) ==
    /\ twin' = [r \in Runs |->
                  [twin[r] EXCEPT !.slot = [topic |-> normaliseTopic(topic),
                                            originalTopic |-> topic,
                                            combinedText |-> given.combinedText,
                                            entries |-> given.entries,
                                            errors |-> given.errors,
                                            timestamp |-> twin[r].time]]]
    /\ UNCHANGED <<vaultVars, hubVars, gptVars, engineVars, shown>>

\* time passes in one run
twinTick(r) ==
    /\ twin[r].time < MaxTime
    /\ twin' = [twin EXCEPT ![r].time = @ + 1]
    /\ UNCHANGED <<vaultVars, hubVars, gptVars, engineVars, shown>>

NextTwin ==
    \/ \E messages \in {<<>>, <<User(<<"a">>)>>, <<User(<<"b">>)>>},
          outcome \in GatherOutcomes, recalled \in {r \in RecallOutcomes : r.text = <<>>} :
          twinRespond(messages, outcome, recalled)
    \/ \E topic \in RecordTopics, given \in Recordings : twinRecord(topic, given)
    \/ \E r \in Runs : twinTick(r)

NextEngine ==
    \/ \E caller \in ActiveCallers, messages \in MessageLists, recalled \in RecallOutcomes :
          respondStart(caller, messages, recalled)
    \/ \E caller \in Callers, outcome \in GatherOutcomes, recalled \in RecallOutcomes :
          gatherSettles(caller, outcome, recalled)
    \/ \E topic \in RecordTopics, given \in Recordings :
          recordAggregation(topic, given.combinedText, given.entries, given.errors)
    \/ tick

\* ======================================================= SPECIFICATIONS
\* the default cap of a vault
DefaultMaxEntries == 40

\* each component on its own: the others stay as constructed
InitVault == maxEntries \in 0..MaxCap /\ VaultStart /\ HubStart /\ GptStart(FALSE, NoItem) /\ EngineStart(MaxTtl, FALSE)

SpecVault == InitVault /\ [][NextVault]_vars

\* what a vault may find under its key when it is constructed
FoundItems ==
    {NoItem, GarbageItem, ObjectItem,
     JSONStringify(<<[user |-> <<"a">>, assistant |-> <<"b">>, timestamp |-> "t1"]>>)}

\* a vault over a working storage that already holds something
InitVaultFound ==
    /\ maxEntries \in 0..MaxCap
    /\ \E item \in FoundItems : VaultStartWith(item, FALSE)
    /\ HubStart /\ GptStart(FALSE, NoItem) /\ EngineStart(MaxTtl, FALSE)

SpecVaultFound == InitVaultFound /\ [][NextVault]_vars

\* a vault over a storage whose calls may throw
InitVaultFaulty ==
    /\ maxEntries \in 0..MaxCap
    /\ \E item \in FoundItems : VaultStartWith(item, TRUE)
    /\ HubStart /\ GptStart(FALSE, NoItem) /\ EngineStart(MaxTtl, FALSE)

SpecVaultFaulty == InitVaultFaulty /\ [][NextVault]_vars

InitHub == maxEntries = DefaultMaxEntries /\ VaultStart /\ HubStart /\ GptStart(FALSE, NoItem) /\ EngineStart(MaxTtl, FALSE)

SpecHub == InitHub /\ [][NextHub]_vars

\* what a hub may find under its key when it is constructed
FoundStates ==
    {NoItem, GarbageItem, HubBlob(NothingSet),
     HubBlob([NothingSet EXCEPT !["wikipedia"] = "off"]),
     HubBlob([NothingSet EXCEPT !["openlibrary"] = "on", !["hackernews"] = "on"])}

\* a hub over a working storage that already holds something
InitHubState ==
    /\ maxEntries = DefaultMaxEntries /\ VaultStart
    /\ \E item \in FoundStates : HubStartWith(item)
    /\ GptStart(FALSE, NoItem) /\ EngineStart(MaxTtl, FALSE)

SpecHubState == InitHubState /\ [][NextHubState]_vars

\* a hub over a storage whose calls may throw
InitHubFaulty ==
    /\ maxEntries = DefaultMaxEntries /\ VaultStartWith(NoItem, TRUE)
    /\ \E item \in FoundStates : HubStartWith(item)
    /\ GptStart(FALSE, NoItem) /\ EngineStart(MaxTtl, FALSE)

SpecHubFaulty == InitHubFaulty /\ [][NextHubState]_vars

InitGpt ==
    /\ maxEntries = DefaultMaxEntries /\ VaultStart /\ HubStart /\ EngineStart(MaxTtl, FALSE)
    /\ \E attached \in BOOLEAN, stored \in {NoItem, TextItem(<<"a">>)} : GptStart(attached, stored)

SpecGpt == InitGpt /\ [][NextGpt]_vars

SpecGptKey == InitGpt /\ [][NextGptKey]_vars

SpecGptTest == InitGpt /\ [][NextGptTest]_vars

SpecFormat == InitGpt /\ [][NextFormat]_vars

\* testKey called while another testKey call is in flight
InitGptOverlap ==
    /\ maxEntries = DefaultMaxEntries /\ VaultStart /\ HubStart /\ EngineStart(MaxTtl, TRUE)
    /\ \E attached \in BOOLEAN, stored \in {NoItem, TextItem(<<"a">>)} : GptStart(attached, stored)

SpecGptOverlap == InitGptOverlap /\ [][NextGptTest]_vars

\* the engine on its own, over a hub and a vault that may answer anything
InitEngine ==
    /\ maxEntries = DefaultMaxEntries /\ VaultStart /\ HubStart /\ GptStart(FALSE, NoItem)
    /\ EngineStart(MaxTtl, FALSE)

SpecEngine == InitEngine /\ [][NextEngine]_vars

\* the engine with respond called while another respond awaits gather
InitEngineOverlap ==
    /\ maxEntries = DefaultMaxEntries /\ VaultStart /\ HubStart /\ GptStart(FALSE, NoItem)
    /\ EngineStart(MaxTtl, TRUE)

\* two callers asking about different topics, a hub that answers or rejects,
\* an empty memory, one recording
NextEngineOverlap ==
    \/ \E caller \in ActiveCallers, messages \in {<<User(<<"a">>)>>, <<User(<<"b">>)>>} :
          respondStart(caller, messages, [kind |-> "returns", text |-> <<>>])
    \/ \E caller \in Callers, outcome \in {o \in GatherOutcomes : o.errors # << <<"x">> >>} :
          gatherSettles(caller, outcome, [kind |-> "returns", text |-> <<>>])
    \/ recordAggregation(<<"b">>, <<"k">>, <<"W">>, <<>>)
    \/ tick

SpecEngineOverlap == InitEngineOverlap /\ [][NextEngineOverlap]_vars

\* two runs of the engine side by side
SpecTwin == InitEngine /\ [][NextTwin]_vars

\* the whole program
Init ==
    /\ maxEntries \in {MaxCap, DefaultMaxEntries} /\ VaultStart /\ HubStart
    /\ EngineStart(MaxTtl, FALSE)
    /\ \E attached \in BOOLEAN, stored \in {NoItem, TextItem(<<"a">>)} : GptStart(attached, stored)

Next ==
    \/ NextVault \/ NextHub \/ NextHubState \/ NextFormat \/ NextGpt \/ NextGptKey
    \/ NextGptTest \/ NextEngine \/ NextTwin

Spec == Init /\ [][Next]_vars

\* =============================================================== CLAIMS
\* ---------------------------------------------- GPT integration: claims
\* t is s without its leading and trailing whitespace
IsTrimOf(t, s) ==
    /\ t # <<>> => ~IsSpace(t[1]) /\ ~IsSpace(t[Len(t)])
    /\ \E i \in 0..Len(s), j \in 0..Len(s) :
          /\ i + Len(t) + j = Len(s)
          /\ \A k \in 1..Len(s) :
                IF k <= i \/ k > i + Len(t) THEN IsSpace(s[k]) ELSE s[k] = t[k - i]

FreeTierCall == q.phase = "done" /\ q.keyAtStart = <<>> /\ q.useFreeTier /\ hasFreeTier

\* C1 as stated: with no key stored, query with useFreeTier on an integration
\* with an attached engine resolves to the engine's response trimmed, invokes
\* respond exactly once and never invokes the transport.
C1_FreeTierAlwaysResolves ==
    FreeTierCall =>
        /\ q.outcome.kind = "resolved"
        /\ q.reply.kind = "string" /\ IsTrimOf(q.outcome.value, q.reply.text)
        /\ q.respondCalls = 1
        /\ q.fetchCalls = 0

\* C1 amended: with no key stored, query with useFreeTier on an integration
\* with an attached engine invokes respond exactly once and never the
\* transport, and resolves to the engine's response trimmed whenever that
\* response is a string that is not blank.
C1_FreeTierResolvesNonBlank ==
    (q.phase # "idle" /\ q.keyAtStart = <<>> /\ q.useFreeTier /\ hasFreeTier) =>
        /\ q.respondCalls = 1
        /\ q.fetchCalls = 0
        /\ (q.phase = "done" /\ q.reply.kind = "string" /\ ~AllSpace(q.reply.text)) =>
              q.outcome.kind = "resolved" /\ IsTrimOf(q.outcome.value, q.reply.text)

\* the engine answered with a padded string and query resolved
C1_Witness ==
    FreeTierCall /\ q.reply.text = <<" ", "a", " ">> /\ q.outcome.kind = "resolved"

\* C2: with no key stored and no engine attached or useFreeTier false, query
\* rejects with code NO_KEY and invokes neither the transport nor the engine.
C2_NoKeyRejects ==
    (q.phase = "done" /\ q.keyAtStart = <<>> /\ (~hasFreeTier \/ ~q.useFreeTier)) =>
        /\ q.outcome.kind = "rejected" /\ q.outcome.code = "NO_KEY"
        /\ q.fetchCalls = 0
        /\ q.respondCalls = 0

\* C3: with a key stored, query performs exactly one transport call, made
\* with the key stored when it was called, and never invokes the engine,
\* even when useFreeTier is true and an engine is attached.
C3_KeyMeansOneCloudCall ==
    (q.phase # "idle" /\ q.keyAtStart # <<>>) =>
        /\ q.fetchCalls = 1
        /\ q.authKey = q.keyAtStart
        /\ q.respondCalls = 0

\* a query made with a key, useFreeTier and an attached engine has returned
C3_Witness ==
    q.phase = "done" /\ q.keyAtStart # <<>> /\ q.useFreeTier /\ hasFreeTier

\* ------------------------------------------------ knowledge hub: claims
\* position of a connector id in the connector list
PositionOf(id) == CHOOSE i \in 1..Len(connectors) : connectors[i].id = id

LabelOf(id) == connectors[PositionOf(id)].label

\* how many elements of the text equal the token
Occurrences(text, token) == Cardinality({p \in 1..Len(text) : text[p] = token})

GatherReturned == g.phase = "done" /\ ~g.blank

\* C4: gather with a non-empty topic starts the fetch of every active
\* connector exactly once (and of no other), returns only after every one of
\* them has settled, and returns one entry per active connector in
\* connector-list order, whatever the order in which the fetches settled.
C4_GatherAwaitsAllInListOrder ==
    /\ (g.phase # "idle" /\ ~g.blank) =>
          \A c \in ConnIds : g.fetched[c] = IF c \in g.wanted THEN 1 ELSE 0
    /\ GatherReturned =>
          /\ Len(g.settled) = Cardinality(g.wanted)
          /\ \A i \in 1..Len(g.settled) : g.settled[i] # Pending
          /\ Len(g.result.entries) = Cardinality(g.wanted)
          /\ \A k \in 1..Len(g.result.entries) : g.result.entries[k].id \in g.wanted
          /\ \A j, k \in 1..Len(g.result.entries) :
                j < k => PositionOf(g.result.entries[j].id) < PositionOf(g.result.entries[k].id)

\* three fetches settled in the reverse of the list order and gather returned
C4_Witness == GatherReturned /\ g.order = <<3, 2, 1>>

\* C5: whatever subset of the active connectors fails, gather returns a
\* result in which every successful connector's content is present in
\* combinedText and every failed connector appears in errors.
C5_FailuresSurfaceAsErrors ==
    GatherReturned =>
        \A i \in 1..Len(g.active) :
            LET label == connectors[g.active[i]].label
            IN  /\ g.settled[i].kind = "fulfilled" =>
                      Occurrences(g.result.combinedText, label) = 1
                /\ g.settled[i].kind = "rejected" =>
                      \E k \in 1..Len(g.result.errors) : g.result.errors[k][1] = label

\* C6: every entry is a success (content, no error) or a failure (error, no
\* content); a failed fetch, whatever its message, gives a failure entry, one
\* element of errors and nothing in combinedText; a successful fetch gives a
\* success entry and one segment of combinedText; errors and segments add up
\* to the entries.
C6_EntriesPartitionResult ==
    GatherReturned =>
        /\ \A i \in 1..Len(g.result.entries) :
              LET e == g.result.entries[i]
                  inErrors == Cardinality({k \in 1..Len(g.result.errors) :
                                              g.result.errors[k][1] = e.label})
                  inText == Occurrences(g.result.combinedText, e.label)
              IN  /\ e.hasContent # e.hasError
                  /\ g.settled[i].kind = "rejected" =>
                        e.hasError /\ inErrors = 1 /\ inText = 0
                  /\ g.settled[i].kind = "fulfilled" =>
                        e.hasContent /\ inErrors = 0 /\ inText = 1
        /\ Len(g.result.errors)
             + Cardinality({id \in ConnIds : Occurrences(g.result.combinedText, LabelOf(id)) > 0})
             = Len(g.result.entries)

\* C7: when the query is empty after trimming or no connector is enabled,
\* gather invokes no fetch and returns entries = [] and combinedText = '';
\* errors is the single 'no query' message when the query is empty, and is
\* empty when the topic is valid but no connector is active.
C7_GatherShortCircuits ==
    (g.phase # "idle" /\ (g.blank \/ g.wanted = {})) =>
        /\ g.phase = "done"
        /\ \A c \in ConnIds : g.fetched[c] = 0
        /\ g.result.entries = <<>>
        /\ g.result.combinedText = <<>>
        /\ g.result.errors = IF g.blank THEN <<NoQueryMessage>> ELSE <<>>

\* gather was called with a whitespace-only query while connectors were enabled
C7_Witness == g.phase = "done" /\ g.blank /\ g.topic = <<>> /\ g.wanted # {}

\* ------------------------------------------------- memory vault: claims
\* the last n elements of s
LastN(s, n) == SubSeq(s, Len(s) - n + 1, Len(s))

\* C8: exportAll never returns more than maxEntries entries; it returns
\* exactly the most recent min(k, maxEntries) of the k non-blank turns
\* remembered since the last clear, in the order they were remembered.
C8_ExportAllIsCappedWindow ==
    vaultCall.op = "exportAll" =>
        /\ Len(vaultCall.out) <= maxEntries
        /\ vaultCall.out = LastN(turns, Min(Len(turns), maxEntries))

\* C9: a remember whose user and assistant are both empty after whitespace
\* normalisation leaves the stored item unchanged and calls no setItem, and
\* no stored entry ever has both user and assistant empty.
C9_BlankTurnNeverStored ==
    /\ (vaultCall.op = "remember" /\ vaultCall.blank) => (vaultCall.kept /\ ~vaultCall.wrote)
    /\ \A i \in 1..Len(read) : ~(AllSpace(read[i].user) /\ AllSpace(read[i].assistant))

\* a blank remember was called while turns were stored
C9_Witness == vaultCall.op = "remember" /\ vaultCall.blank /\ Len(read) >= 1

\* C10: recall({limit}) renders exactly the last min(limit, n) of the n
\* stored entries, oldest of them first, and the empty string when n = 0.
C10_RecallRendersLastLimit ==
    vaultCall.op = "recall" =>
        vaultCall.out =
            LET latest == LastN(read, Min(vaultCall.limit, Len(read)))
            IN  JoinWith([i \in 1..Len(latest) |-> formatEntry(latest[i], i - 1)], <<"\n">>)

\* C11: after clear(), whatever was stored before, the memory key is absent
\* from storage, exportAll() returns the empty sequence and recall() the
\* empty string; a later remember starts a fresh sequence that holds only
\* the new entry.
C11_ClearStartsFresh ==
    cleared =>
        /\ turns = <<>> =>
              /\ memStore = NoItem
              /\ vaultCall.op \in {"exportAll", "recall"} => vaultCall.out = <<>>
        /\ Len(turns) = 1 => memStore = JSONStringify(turns)

\* a vault that found an entry under its key was cleared, one turn was
\* remembered and exported
C11_Witness ==
    /\ cleared /\ Len(turns) = 1
    /\ vaultCall.op = "exportAll" /\ vaultCall.out = turns

\* the operation read nothing it could use: the item was missing, unparsable
\* or not a sequence, or getItem threw
ReadNothing == vaultCall.before # "array" \/ vaultCall.unread

\* C12: storage never makes a vault operation fail: over a missing,
\* unparsable or non-sequence item exportAll returns the empty sequence,
\* recall the empty string and remember stores a sequence of the new entry
\* alone; an operation whose setItem or removeItem throws returns and leaves
\* the stored item as it was.
C12_StorageFaultsAreAbsorbed ==
    /\ (vaultCall.op \in {"exportAll", "recall"} /\ ReadNothing) => vaultCall.out = <<>>
    /\ (vaultCall.op = "remember" /\ vaultCall.wrote /\ ~vaultCall.failed /\ ReadNothing) =>
          memStore.kind = "array" /\ Len(memStore.items) = 1
    /\ vaultCall.failed => vaultCall.kept

\* exportAll over a stored value that is not a sequence, and a remember whose
\* setItem threw over an unparsable item
C12_Witness ==
    \/ vaultCall.op = "exportAll" /\ vaultCall.before = "object" /\ ~vaultCall.unread
    \/ vaultCall.op = "remember" /\ vaultCall.failed /\ vaultCall.before = "garbage"

\* ---------------------------------------------- free-tier engine: claims
\* sub occurs in text
IsInfix(sub, text) ==
    \E i \in 0..(Len(text) - Len(sub)) : SubSeq(text, i + 1, i + Len(sub)) = sub

\* the dossier block of a text
DossierOf(text) == <<"dossier:", "\n">> \o text

\* the call was made with a topic that the slot then held, younger than cacheTtl
CacheHit(call) ==
    /\ call.phase # "idle"
    /\ call.topic # <<>>
    /\ normaliseTopic(call.topic) = call.found.topic
    /\ call.age < cacheTtl

\* the call was made with a topic that the slot did not hold, or held for
\* cacheTtl or longer
CacheMiss(call) ==
    /\ call.phase # "idle"
    /\ call.topic # <<>>
    /\ (normaliseTopic(call.topic) # call.found.topic \/ call.age >= cacheTtl)

\* C13: a respond whose most recent user message normalises to the cached
\* topic while the slot is younger than cacheTtl never invokes gather and
\* builds its reply from the cached aggregation, whose combinedText it shows
\* as the dossier block; a slot whose age has reached cacheTtl is not reused.
C13_FreshCacheIsReused ==
    \A c \in Callers :
        LET call == resp[c]
        IN  /\ CacheHit(call) =>
                  /\ call.phase = "done"
                  /\ call.gatherCalls = 0
                  /\ call.data.combinedText = call.found.combinedText
                  /\ (call.outcome.kind = "resolved" /\ call.found.combinedText # <<>>) =>
                        IsInfix(DossierOf(call.found.combinedText), call.outcome.value)
            /\ (call.phase # "idle" /\ call.topic # <<>> /\ call.age >= cacheTtl) =>
                  call.gatherCalls = 1

\* a respond in other letter case than the recorded topic reused a slot that
\* was not new, and showed its text
C13_Witness ==
    /\ CacheHit(resp["chat"]) /\ resp["chat"].topic = <<"a">> /\ now > 0
    /\ aggregation.originalTopic = <<"A", " ">>
    /\ resp["chat"].found.combinedText = <<"k">>
    /\ resp["chat"].outcome.kind = "resolved"

\* C14: one slot: a respond with a non-empty topic that the slot does not
\* hold, or holds expired, invokes gather exactly once, with that topic and
\* limit 4, and the slot is then overwritten with that topic's outcome; so a
\* respond on a topic asked before another one gathers again within the TTL.
C14_MissGathersOnceAndOverwrites ==
    \A c \in Callers :
        LET call == resp[c]
        IN  /\ CacheMiss(call) =>
                  /\ call.gatherCalls = 1
                  /\ call.gatherArg = call.topic
                  /\ call.gatherLimit = 4
            /\ (CacheMiss(call) /\ call.phase = "done" /\ lastWrite.by = c) =>
                  /\ aggregation.topic = normaliseTopic(call.topic)
                  /\ aggregation.originalTopic = call.topic
                  /\ Digest(aggregation) = call.data
                  /\ aggregation.combinedText \in {<<>>, <<"c">>}

\* a respond on a while the fresh slot held b gathered and overwrote the slot
C14_Witness ==
    /\ resp["chat"].phase = "done" /\ resp["chat"].topic = <<"a">>
    /\ resp["chat"].found.topic = <<"b">> /\ resp["chat"].age < cacheTtl
    /\ resp["chat"].gatherCalls = 1
    /\ lastWrite.by = "chat" /\ aggregation.topic = <<"a">>

\* C15: respond never raises: whatever the messages, the slot and the
\* behaviour of gather and recall, respond resolves to a string.
C15_RespondAlwaysResolves ==
    \A c \in Callers : resp[c].phase = "done" => resp[c].outcome.kind = "resolved"

\* C16: recordAggregation replaces the slot with the recorded topic
\* normalised, the recorded combinedText, entries and errors and a fresh
\* timestamp, whatever the slot held; a respond for that topic right after it
\* uses the recorded data and invokes no gather.
C16_RecordForcesSlot ==
    /\ lastWrite.by = "record" =>
          /\ aggregation.topic = normaliseTopic(lastWrite.topic)
          /\ aggregation.combinedText = lastWrite.combinedText
          /\ aggregation.entries = lastWrite.entries
          /\ aggregation.errors = lastWrite.errors
          /\ aggregation.timestamp = lastWrite.at
    /\ \A c \in Callers :
          LET call == resp[c]
          IN  (lastWrite.by = "record" /\ c \in lastWrite.readers /\ call.topic # <<>>
                 /\ normaliseTopic(call.topic) = aggregation.topic /\ call.age = 0) =>
                  /\ call.gatherCalls = 0
                  /\ call.data = Digest(aggregation)

\* a slot that had expired was replaced by recordAggregation and a respond for
\* the recorded topic followed at once
C16_Witness ==
    /\ lastWrite.by = "record" /\ lastWrite.topic = <<"A", " ">>
    /\ lastWrite.combinedText = <<"k">> /\ aggregation.timestamp = MaxTime
    /\ "chat" \in lastWrite.readers /\ resp["chat"].topic = <<"a">>
    /\ resp["chat"].age = 0 /\ resp["chat"].gatherCalls = 0

\* ------------------------------------------ GPT integration: key and test
\* C17: after any sequence of loadFromStorage, persistKey, clearKey, testKey
\* and applyKeyFromQuery calls over a working storage, the key in memory
\* equals the value stored under the key's storage entry (the empty string
\* when the entry is absent).
C17_KeyMirrorsStorage ==
    gptApiKey = (IF keyStore = NoItem THEN <<>> ELSE keyStore.items)

\* a test of a new candidate has returned and left a key other than the one
\* found in storage at construction
C17_Witness ==
    /\ test["page"].phase = "done" /\ test["page"].fetchCalls >= 1
    /\ gptApiKey = <<"b">> /\ keyStore = TextItem(<<"b">>)

\* C18: persistKey resolves the key as the trimmed explicit value when that is
\* not empty, otherwise the trimmed value of the input field, and returns it;
\* when nothing resolves it returns the empty string and leaves key, storage
\* and status unchanged; when the resolved key equals the current key it
\* writes nothing to storage; only when it differs are the key in memory and
\* the stored value both set to it.
C18_PersistKeyResolvesAndWritesOnChange ==
    keyCall.op = "persistKey" =>
        LET explicit == Trim(keyCall.value)
            expected == IF explicit # <<>> THEN explicit ELSE Trim(keyCall.field)
        IN  /\ keyCall.returned = expected
            /\ expected = <<>> =>
                  /\ ~keyCall.wrote
                  /\ gptApiKey = keyCall.key /\ keyStore = keyCall.store
                  /\ status = keyCall.status
            /\ (expected # <<>> /\ expected = keyCall.key) =>
                  ~keyCall.wrote /\ gptApiKey = keyCall.key /\ keyStore = keyCall.store
            /\ (expected # <<>> /\ expected # keyCall.key) =>
                  keyCall.wrote /\ gptApiKey = expected /\ keyStore = TextItem(expected)

\* persistKey was given an explicit value while the field held another text,
\* and stored the explicit value trimmed
C18_Witness ==
    /\ keyCall.op = "persistKey" /\ keyCall.wrote
    /\ keyCall.value = <<" ", "a">> /\ keyCall.field = <<"a", "a">>
    /\ keyStore = TextItem(<<"a">>)

\* C19: testKey sends its two probes in sequence: the date/time probe only
\* after the confirmation probe has succeeded; when the confirmation probe
\* fails the transport is invoked exactly once; testKey returns true exactly
\* when both probes succeeded.
C19_ProbesInSequence ==
    \A x \in Testers :
        LET call == test[x]
        IN  /\ call.fetchCalls = 2 => call.first.kind = "resolved"
            /\ (call.phase = "done" /\ call.first.kind = "rejected") => call.fetchCalls = 1
            /\ call.phase = "done" =>
                  (call.returned <=>
                      /\ call.fetchCalls = 2
                      /\ call.first.kind = "resolved"
                      /\ call.second.kind = "resolved")

\* C20: when testKey returns, the status tells the stage reached: the
\* shown error with the server's message, flagged as an error, if the
\* first probe failed; 'key confirmed' with the time-probe failure, flagged as
\* an error, and the result false if the second failed; 'integration active'
\* with the probe's ISO timestamp if both succeeded.
C20_StatusTellsStage ==
    \A x \in Testers :
        LET call == test[x]
        IN  (call.phase = "done" /\ call.fetchCalls >= 1) =>
                /\ call.first.kind = "rejected" =>
                      /\ ~call.returned
                      /\ call.left.error
                      /\ call.left.text = "test failed"
                      /\ call.left.about.form = "gpt-error"
                      /\ call.left.about.message = call.first.message
                /\ (call.first.kind = "resolved" /\ call.second.kind = "rejected") =>
                      /\ ~call.returned
                      /\ call.left.error
                      /\ call.left.text = "key confirmed, time probe failed"
                      /\ call.second.code # "NO_KEY" =>
                            call.left.about.message = call.second.message
                /\ (call.first.kind = "resolved" /\ call.second.kind = "resolved") =>
                      /\ ~call.left.error
                      /\ call.left.text = "integration active"
                      /\ call.left.about.stamp = IsoStamp

\* the key was confirmed and the server refused the date/time probe with a
\* message of its own
C20_Witness ==
    /\ test["page"].phase = "done"
    /\ test["page"].first.kind = "resolved"
    /\ test["page"].second.code = "API_ERROR"
    /\ test["page"].second.message = "server message"
    /\ status = test["page"].left

\* C21: whenever at least one testKey call is in flight (between starting
\* its first probe and returning), isBusy() is true and the save and test
\* controls are disabled, also when testKey calls overlap; once no testKey
\* call is in flight, busy is false and the controls are enabled.
InFlight(x) == test[x].phase \in {"confirming", "timing"}

C21_BusyWhileTesting ==
    /\ (\E x \in Testers : InFlight(x)) => busy
    /\ (\A x \in Testers : ~InFlight(x)) => ~busy

\* C22: testKey called with no candidate, an empty input field and no stored
\* key fails fast: it returns false, sets the 'enter a key' prompt flagged as
\* an error, calls the transport zero times, writes nothing to storage and
\* never sets busy.
NoCandidates == {c \in TypedKeys : Trim(c) = <<>>}

C22_NothingToTestFailsFast ==
    [][\A x \in Testers, candidate \in NoCandidates, message \in {"", "custom"} :
          (/\ Trim(keyField) = <<>> /\ gptApiKey = <<>> /\ keyStore = NoItem
           /\ testKey(x, candidate, message))
          => /\ test'[x].phase = "done" /\ ~test'[x].returned
             /\ test'[x].fetchCalls = 0
             /\ status'.text = "enter a key before testing" /\ status'.error
             /\ keyStore' = keyStore /\ gptApiKey' = gptApiKey
             /\ busy' = busy]_vars

\* testKey has returned without a probe and left the prompt
C22_Witness ==
    /\ test["page"].phase = "done" /\ test["page"].fetchCalls = 0
    /\ ~test["page"].returned
    /\ status = Status("enter a key before testing", TRUE)
    /\ keyStore = NoItem /\ ~busy

\* C23: when the location URL carries a non-empty sk parameter,
\* applyKeyFromQuery stores that value as the key and runs a complete testKey
\* cycle (the second probe too when the first succeeds) before its promise
\* resolves; when the URL is absent, unparsable or has no sk parameter, it
\* changes neither key nor storage and makes no transport call.
CarriesKey(href) == href.kind = "url" /\ href.hasSk /\ Trim(href.sk) # <<>>

C23_LinkKeyIsStoredAndTested ==
    /\ [][\A x \in Testers, href \in Locations :
             applyKeyFromQuery(x, href) =>
                IF CarriesKey(href)
                THEN /\ gptApiKey' = Trim(href.sk)
                     /\ keyStore' = TextItem(Trim(href.sk))
                     /\ test'[x].phase = "confirming" /\ test'[x].fetchCalls = 1
                ELSE /\ gptApiKey' = gptApiKey /\ keyStore' = keyStore
                     /\ test'[x].phase = "skipped" /\ test'[x].fetchCalls = 0]_vars
    /\ [](\A x \in Testers :
             (test[x].fromQuery /\ test[x].phase = "done") =>
                /\ test[x].first.kind # "none"
                /\ test[x].first.kind = "resolved" => test[x].second.kind # "none")

\* the key of the link was stored and both probes were answered before
\* applyKeyFromQuery returned
C23_Witness ==
    /\ test["page"].fromQuery /\ test["page"].phase = "done"
    /\ test["page"].fetchCalls = 2 /\ test["page"].returned
    /\ gptApiKey = <<"b">> /\ keyStore = TextItem(<<"b">>)

\* ------------------------------------------- GPT integration: query errors
\* C27: with a key stored, query rejects with code API_ERROR carrying the
\* server's error message whenever the transport response is not OK, rejects
\* with code EMPTY_RESPONSE whenever the response is OK but the completion
\* text is missing or blank after trimming, and otherwise resolves to the
\* trimmed completion text.
C27_CloudRepliesAreClassified ==
    [][\A r \in FetchReplies :
          (r.kind = "response" /\ fetchReturns(r)) =>
              /\ q.keyAtStart # <<>> /\ q.fetchCalls = 1
              /\ ~r.ok =>
                    /\ q'.outcome.kind = "rejected" /\ q'.outcome.code = "API_ERROR"
                    /\ r.hasMessage => q'.outcome.message = "server message"
              /\ (r.ok /\ (~r.hasContent \/ AllSpace(r.content))) =>
                    q'.outcome.kind = "rejected" /\ q'.outcome.code = "EMPTY_RESPONSE"
              /\ (r.ok /\ r.hasContent /\ ~AllSpace(r.content)) =>
                    q'.outcome.kind = "resolved" /\ q'.outcome.value = Trim(r.content)]_vars

\* a query with a key was refused by the server with a message of its own
C27_Witness ==
    /\ q.phase = "done" /\ q.keyAtStart # <<>> /\ q.fetchCalls = 1
    /\ q.outcome = Rejected("API_ERROR", "server message")

\* C28: on the free-tier path query rejects with code FREE_TIER_EMPTY when the
\* engine returns a non-string or blank response, rejects with code
\* FREE_TIER_FAILED carrying the original message when the engine fails with
\* an error that has no code, and lets an engine error that already carries a
\* code pass through unchanged.
C28_EngineRepliesAreClassified ==
    (q.phase = "done" /\ q.respondCalls = 1) =>
        /\ (q.reply.kind = "other" \/ (q.reply.kind = "string" /\ AllSpace(q.reply.text))) =>
              q.outcome.kind = "rejected" /\ q.outcome.code = "FREE_TIER_EMPTY"
        /\ (q.reply.kind = "throws" /\ ~q.reply.coded) =>
              /\ q.outcome.kind = "rejected" /\ q.outcome.code = "FREE_TIER_FAILED"
              /\ q.outcome.message = "engine failure"
        /\ (q.reply.kind = "throws" /\ q.reply.coded) =>
              q.outcome = Rejected("ENGINE_CODE", "engine failure")

\* the engine failed with an error of its own code and query passed it on
C28_Witness ==
    /\ q.phase = "done" /\ q.respondCalls = 1 /\ q.fetchCalls = 0
    /\ q.reply.kind = "throws" /\ q.reply.coded
    /\ q.outcome.code = "ENGINE_CODE"

\* C29: every call to query ends in one of two ways: it resolves to a
\* non-blank string, or it rejects with an error whose code is one of NO_KEY,
\* API_ERROR, EMPTY_RESPONSE, FREE_TIER_EMPTY, FREE_TIER_FAILED; for every key
\* state and every transport behaviour, a failing transport call included.
Taxonomy == {"NO_KEY", "API_ERROR", "EMPTY_RESPONSE", "FREE_TIER_EMPTY", "FREE_TIER_FAILED"}

C29_QueryEndsInStringOrCode ==
    q.phase = "done" =>
        \/ /\ q.outcome.kind = "resolved"
           /\ q.outcome.value # <<"undefined">>
           /\ ~AllSpace(q.outcome.value)
        \/ /\ q.outcome.kind = "rejected"
           /\ q.outcome.code \in Taxonomy

\* ------------------------------------- knowledge hub: flags and listeners
\* what the hub found in storage for a connector id, before any call
FoundFlag(id) == IF hubStore.kind = "object" THEN hubStore.items[id] ELSE "unset"

\* a connector that states no defaultEnabled
PlainConnector == [id |-> "wikipedia", label |-> "W"]

\* C24: after any sequence of setConnectorEnabled calls, getConnectors
\* reports for each connector the last value set for its id if one was ever
\* set (or was loaded from storage at construction), otherwise the
\* connector's defaultEnabled, otherwise true; setting one connector's flag
\* never changes the flag reported for another connector.
C24_FlagsFollowLastSet ==
    /\ hubCall.op = "none" =>
          \A id \in ConnIds :
              getConnectors[id] = IF FoundFlag(id) # "unset" THEN FoundFlag(id) = "on"
                                  ELSE connectors[PositionOf(id)].defaultEnabled
    /\ hubCall.op = "setConnectorEnabled" =>
          /\ getConnectors[hubCall.id] = hubCall.enabled
          /\ \A id \in ConnIds \ {hubCall.id} : getConnectors[id] = hubCall.before[id]
    /\ ConnectorEnabled(PlainConnector) =
          IF hubEnabled[PlainConnector.id] = "unset" THEN TRUE
          ELSE hubEnabled[PlainConnector.id] = "on"

\* a connector found switched off in storage was switched on, and a connector
\* never set still reports its default, false
C24_Witness ==
    /\ hubCall.op = "setConnectorEnabled" /\ hubCall.id = "wikipedia" /\ hubCall.enabled
    /\ ~hubCall.before["wikipedia"]
    /\ getConnectors["wikipedia"] /\ ~getConnectors["openlibrary"]
    /\ hubEnabled["openlibrary"] = "unset"

\* the listener was called exactly once by the call
CalledOnce(call, listener) ==
    Cardinality({k \in 1..Len(call.invoked) : call.invoked[k] = listener}) = 1

\* C25: after every setConnectorEnabled call returns, the state blob in
\* storage equals the hub's in-memory enabled map, and every listener
\* subscribed at the time of the call has been invoked exactly once for that
\* call, after the state was persisted.
C25_PersistedThenBroadcast ==
    (hubCall.op = "setConnectorEnabled" /\ ~hubCall.raised) =>
        /\ hubStore.kind = "object" /\ hubStore.items = hubEnabled
        /\ \A listener \in Listed(hubCall.subscribed) : CalledOnce(hubCall, listener)
        /\ Len(hubCall.invoked) = Len(hubCall.subscribed)
        /\ hubCall.seen = hubStore

\* a call made with two listeners subscribed has returned
C25_Witness ==
    /\ hubCall.op = "setConnectorEnabled" /\ ~hubCall.raised
    /\ Len(hubCall.subscribed) = 2 /\ Len(hubCall.invoked) = 2
    /\ hubCall.before[hubCall.id] # hubCall.enabled

\* C26: a subscriber that throws during notification never prevents the
\* other subscribers from being invoked, never makes setConnectorEnabled
\* raise, and never alters or rolls back the hub's enabled state or its
\* persisted copy.
C26_ThrowingListenerIsIsolated ==
    (hubCall.op = "setConnectorEnabled" /\ hubCall.threw # {}) =>
        /\ \A listener \in Listed(hubCall.subscribed) : CalledOnce(hubCall, listener)
        /\ ~hubCall.raised
        /\ hubEnabled[hubCall.id] = (IF hubCall.enabled THEN "on" ELSE "off")
        /\ hubStore = HubBlob(hubEnabled)

\* the first of two listeners threw and the second was called all the same
C26_Witness ==
    /\ hubCall.op = "setConnectorEnabled"
    /\ hubCall.subscribed = <<"panel", "chat">> /\ hubCall.threw = {"panel"}
    /\ hubCall.invoked = <<"panel", "chat">>

\* C30: storage failures are never propagated by the knowledge hub or the GPT
\* integration: when a storage read, write or removal fails during hub
\* construction, setConnectorEnabled, loadFromStorage, persistKey or clearKey,
\* the call completes without raising, a failed read is treated as empty, and
\* (for the hub) the subscribers are still notified.
C30_StorageFaultsNotPropagated ==
    hubCall.op = "setConnectorEnabled" =>
        /\ ~hubCall.raised
        /\ \A listener \in Listed(hubCall.subscribed) : CalledOnce(hubCall, listener)

\* ------------------------------------------- GPT integration: key state
\* C31: loadFromStorage sets the key in memory and the input field to the
\* persisted value, and the status by strict priority: 'key loaded and ready'
\* when a key is stored; otherwise 'free-tier mode active' when a free-tier
\* engine is attached; otherwise 'enter a key'.
C31_LoadSetsKeyFieldAndStatus ==
    [][loadFromStorage =>
          LET persisted == IF keyStore = NoItem THEN <<>> ELSE keyStore.items
          IN  /\ gptApiKey' = persisted /\ keyField' = persisted
              /\ keyStore' = keyStore
              /\ ~status'.error
              /\ status'.text = IF persisted # <<>> THEN "key loaded and ready"
                                ELSE IF hasFreeTier THEN "free-tier mode active"
                                ELSE "enter a key"]_vars

\* a key saved after construction was loaded again, with an engine attached
C31_Witness ==
    /\ hasFreeTier /\ keyStore = TextItem(<<"a", "a">>)
    /\ gptApiKey = <<"a", "a">> /\ keyField = <<"a", "a">>
    /\ status = Status("key loaded and ready", FALSE)

\* C33: formatError is injective on error kinds: for the kinds NO_KEY,
\* API_ERROR, EMPTY_RESPONSE, FREE_TIER_EMPTY and FREE_TIER_FAILED (with the
\* same underlying message), no two kinds are mapped to the same text.
C33_FormatErrorTellsKindsApart ==
    Len(shown) = 2 =>
        LET one == shown[1]
            other == shown[2]
        IN  (/\ one.error.kind = "rejected" /\ other.error.kind = "rejected"
             /\ one.error.code \in Taxonomy /\ other.error.code \in Taxonomy
             /\ one.error.code # other.error.code
             /\ one.error.message = other.error.message)
            => one.text # other.text

\* --------------------------------------- free-tier engine: more claims
\* C32: respond is deterministic: two runs given the same message list, the
\* same injected clock value, the same knowledge-hub results and the same
\* memory-vault contents, after the same sequence of prior engine calls,
\* return the same text, whatever the wall-clock time at which they run.
C32_RespondIsDeterministic == twin["one"].text = twin["other"].text

UnavailableBlock(message) == <<"sources-unavailable:", " ">> \o message

\* C34: when gather rejects during respond, the engine caches a failure
\* aggregation for that topic (normalised topic, empty combinedText, no
\* entries, errors holding exactly the caught message), the reply shows the
\* 'sources unavailable' block with that message, and a later respond for the
\* same topic within the TTL reuses the cached failure without invoking
\* gather again.
C34_GatherFailureIsCached ==
    \A c \in Callers :
        LET call == resp[c]
        IN  /\ (call.phase = "done" /\ call.failure # <<>>) =>
                  /\ call.gatherCalls = 1
                  /\ call.data = [topic |-> normaliseTopic(call.asked),
                                  combinedText |-> <<>>, errors |-> call.failure]
                  /\ call.outcome.kind = "resolved" =>
                        IsInfix(UnavailableBlock(call.failure[1]), call.outcome.value)
                  /\ (lastWrite.by = c /\ c \notin lastWrite.readers) =>
                        aggregation = [topic |-> normaliseTopic(call.asked),
                                       originalTopic |-> call.asked,
                                       combinedText |-> <<>>, entries |-> <<>>,
                                       errors |-> call.failure,
                                       timestamp |-> lastWrite.at]
            /\ (CacheHit(call) /\ call.found.combinedText = <<>>
                  /\ Len(call.found.errors) = 1) =>
                  /\ call.phase = "done" /\ call.gatherCalls = 0
                  /\ call.data = [topic |-> call.found.topic, combinedText |-> <<>>,
                                  errors |-> call.found.errors]
                  /\ call.outcome.kind = "resolved" =>
                        IsInfix(UnavailableBlock(call.found.errors[1]), call.outcome.value)

\* a respond reused the failure that an earlier respond of the same caller
\* had cached, and showed its message
C34_Witness ==
    /\ resp["chat"].phase = "done" /\ resp["chat"].gatherCalls = 0
    /\ resp["chat"].topic = <<"a">>
    /\ resp["chat"].found.errors = << <<"r">> >> /\ resp["chat"].age < cacheTtl
    /\ lastWrite.by = "chat" /\ aggregation.errors = << <<"r">> >>
    /\ resp["chat"].outcome.kind = "resolved"
    /\ IsInfix(UnavailableBlock(<<"r">>), resp["chat"].outcome.value)

\* C37: the engine never invokes gather with a topic that normalises to
\* empty: when the message list holds no non-blank user message and no topic
\* has been cached, respond makes no gather call, sets the cache to the 'no
\* request yet' error aggregation and still returns the whole templated reply
\* with the prompt-for-input block.
C37_NoTopicNoGather ==
    \A c \in Callers :
        LET call == resp[c]
        IN  /\ call.gatherCalls > 0 => normaliseTopic(call.gatherArg) # <<>>
            /\ (call.phase # "idle" /\ call.topic = <<>> /\ call.found.topic = <<>>) =>
                  /\ call.phase = "done" /\ call.gatherCalls = 0
                  /\ call.data = [topic |-> <<>>, combinedText |-> <<>>,
                                  errors |-> <<NoRequestMessage>>]
                  /\ (lastWrite.by = c /\ c \notin lastWrite.readers) =>
                        aggregation = [topic |-> <<>>, originalTopic |-> <<>>,
                                       combinedText |-> <<>>, entries |-> <<>>,
                                       errors |-> <<NoRequestMessage>>,
                                       timestamp |-> lastWrite.at]
                  /\ call.outcome.kind = "resolved" =>
                        /\ IsInfix(<<"awaiting-question">>, call.outcome.value)
                        /\ IsInfix(UnavailableBlock(NoRequestMessage), call.outcome.value)
                        /\ IsInfix(<<"1-awaiting-task">>, call.outcome.value)
                        /\ IsInfix(<<"footer">>, call.outcome.value)

\* a respond whose only user message is blank, on a new engine, has answered
C37_Witness ==
    /\ resp["chat"].phase = "done" /\ resp["chat"].topic = <<>>
    /\ resp["chat"].gatherCalls = 0
    /\ lastWrite.by = "chat" /\ aggregation.errors = <<NoRequestMessage>>
    /\ resp["chat"].outcome.kind = "resolved"

\* an aggregation as one gather call leaves it
ByOneGather(data, time) ==
    \E o \in GatherOutcomes : data = Gathered(data.originalTopic, o, time)

\* C35: when respond calls for different topics and recordAggregation calls
\* overlap at respond's await of gather, each respond builds its reply from
\* the aggregation gathered for its own topic, and the slot always holds one
\* whole aggregation written by one call, the last writer, never fields of
\* two.
C35_OverlappingCallsKeepApart ==
    /\ \A c \in Callers :
          LET call == resp[c]
          IN  (call.phase = "done" /\ call.gatherCalls = 1) =>
                /\ call.gatherArg = call.asked
                /\ \E o \in GatherOutcomes, m \in {<<>>, <<"m">>} :
                      /\ call.data = Digest(Gathered(call.asked, o, 0))
                      /\ call.outcome.kind = "resolved" =>
                            call.outcome.value =
                                ReplyText(call.topic, Gathered(call.asked, o, 0), m)
                /\ (lastWrite.by = c /\ c \notin lastWrite.readers) =>
                      /\ aggregation.originalTopic = call.asked
                      /\ Digest(aggregation) = call.data
    /\ lastWrite.by = "none" => aggregation = NoAggregation
    /\ lastWrite.by = "record" =>
          aggregation = [topic |-> normaliseTopic(lastWrite.topic),
                         originalTopic |-> lastWrite.topic,
                         combinedText |-> lastWrite.combinedText,
                         entries |-> lastWrite.entries,
                         errors |-> lastWrite.errors,
                         timestamp |-> lastWrite.at]
    /\ lastWrite.by \in Callers =>
          \/ aggregation = NoRequestAggregation(lastWrite.at)
          \/ ByOneGather(aggregation, lastWrite.at)

\* two responds, one about "a" and one about "b", both called before either
\* gather settled; both have ended and the one about "b" wrote last
C35_Witness ==
    /\ overlap
    /\ \A c \in Callers : /\ resp[c].phase = "done" /\ resp[c].gatherCalls = 1
                          /\ resp[c].found = Seen(NoAggregation)
                          /\ resp[c].outcome.kind = "resolved"
    /\ resp["chat"].data.topic = <<"a">> /\ resp["second"].data.topic = <<"b">>
    /\ resp["chat"].data.combinedText = <<"c">> /\ resp["second"].data.combinedText = <<>>
    /\ lastWrite.by = "second"

\* the text repeats the ISO timestamp of the probe
EchoesStamp(text) == \E i \in DOMAIN text : text[i] = IsoStamp

\* C36: testKey returns true, and reports the integration as active, only
\* when the answer to its date/time probe contains the ISO timestamp the
\* probe carried.
C36_ActiveOnlyOnEcho ==
    \A x \in Testers :
        LET call == test[x]
        IN  (call.phase = "done" /\ (call.returned \/ call.left.text = "integration active")) =>
                /\ call.second.kind = "resolved"
                /\ EchoesStamp(call.second.value)

\* the connectors whose flag, set or defaulted, is on now
EnabledNow == {c \in ConnIds : getConnectors[c]}

\* the list positions of the connectors in ids, in list order
RECURSIVE PositionsOf(_, _)
PositionsOf(ids, i) ==
    IF i > Len(connectors) THEN <<>>
    ELSE (IF connectors[i].id \in ids THEN <<i>> ELSE <<>>) \o PositionsOf(ids, i + 1)

\* C38: the connectors a gather call queries are fixed when the call starts:
\* a setConnectorEnabled call made while the gather is in flight changes
\* neither which connectors it fetches nor the id and label of its entries;
\* it applies only to gather calls started afterwards.
C38_GatherKeepsItsConnectors ==
    (g.phase \in {"waiting", "done"} /\ ~g.blank /\ g.wanted # {}) =>
        /\ g.active = PositionsOf(g.wanted, 1)
        /\ \A c \in ConnIds : g.fetched[c] = IF c \in g.wanted THEN 1 ELSE 0
        /\ g.phase = "done" =>
              /\ Len(g.result.entries) = Len(g.active)
              /\ \A k \in 1..Len(g.active) :
                    /\ g.result.entries[k].id = connectors[g.active[k]].id
                    /\ g.result.entries[k].label = connectors[g.active[k]].label

\* a gather over wikipedia and hackernews has returned; while it waited,
\* wikipedia was switched off and openlibrary on
C38_Witness ==
    /\ g.phase = "done" /\ g.wanted = {"wikipedia", "hackernews"}
    /\ EnabledNow = {"hackernews", "openlibrary"}
    /\ g.changed = {"wikipedia", "openlibrary"}
    /\ Len(g.result.entries) = 2

\* C39: testKey never rolls back the key it persisted: when a new candidate
\* is given and either probe fails, the candidate is the key in memory and in
\* storage after testKey has returned false (and stays so until another call
\* assigns the key); the key held before is not restored.
C39_CandidateOutlivesFailedTest ==
    \A x \in Testers :
        LET call == test[x]
        IN  (call.phase = "done" /\ ~call.returned /\ call.adopted # <<>> /\ ~call.touched) =>
                /\ call.fetchCalls >= 1
                /\ gptApiKey = call.adopted
                /\ keyStore = TextItem(call.adopted)

\* key "a" was stored; testKey({candidate: ' b'}) put "b" in its place, the
\* confirmation probe succeeded and the date/time probe was refused
C39_Witness ==
    /\ test["page"].phase = "done" /\ ~test["page"].returned /\ ~test["page"].touched
    /\ test["page"].adopted = <<"b">>
    /\ test["page"].first.kind = "resolved" /\ test["page"].second.kind = "rejected"
    /\ test["page"].second.code = "API_ERROR"
    /\ gptApiKey = <<"b">> /\ keyStore = TextItem(<<"b">>)

\* C40: query is read-only with respect to key state: for every key state,
\* field content and options, the key in memory and the stored item after a
\* query call, resolved or rejected, are those before it.
C40_QueryLeavesKeyState ==
    [][((\E useFreeTier \in BOOLEAN : queryStart(useFreeTier))
          \/ (\E r \in FetchReplies : fetchReturns(r))
          \/ (\E r \in EngineReplies : respondReturns(r)))
         => (gptApiKey' = gptApiKey /\ keyStore' = keyStore)]_vars

====
